---- MODULE Spec2Model ----
(***************************************************************************)
(* Model of the mediastreamer2 stream session controller                   *)
(* (src/src/voip/mediastream.c): SDP crypto-suite mapping, security        *)
(* contexts, TMMBR bitrate control, FlexFEC set-up, liveness and the       *)
(* periodic event-processing tick.                                         *)
(*                                                                         *)
(* The components do not share state, so each one is explored under its    *)
(* own specification (SpecCrypto, SpecSec, SpecTmmbr, SpecFec, Spec); the  *)
(* variables of the other components stay at their constructed values.     *)
(***************************************************************************)
EXTENDS Integers, Sequences, FiniteSets, TLC

VARIABLES
    ret,            \* the last operation performed, its inputs and its result
    \* ---- SDP crypto-suite mapping
    cs_desc,        \* MSCryptoSuiteNameParams given to build_from_name_params
    cs_suite,       \* MSCryptoSuite it returned
    cs_out,         \* what ms_crypto_suite_to_name_params made of that suite
    \* ---- security contexts and dummy STUN sending
    zrtp_context,   \* sessions.zrtp_context: NULL or "zrtp"
    dtls_context,   \* sessions.dtls_context: NULL or "dtls"
    dtls_mtu,       \* the mtu the DTLS context was created with (0: no context)
    srtp_context,   \* sessions.srtp_context: NULL or "srtp"
    stun_allowed,   \* stream->stun_allowed
    ice_check_list, \* stream->ice_check_list: NULL or "cl"
    bundle_role,    \* rtp_session->bundle / is_primary: "none", "primary", "secondary"
    rtpsend,        \* stream->rtpsend: NULL or "rtpsend"
    stun_enabled,   \* what MS_RTP_SEND_ENABLE_STUN last set in rtpsend
    stun_forced,    \* what MS_RTP_SEND_ENABLE_STUN_FORCED last set in rtpsend
    \* ---- TMMBR bitrate control
    type,                   \* stream->type: "MSAudio", "MSVideo", "MSText"
    encoder,                \* stream->encoder: NULL or "encoder"
    max_target_bitrate,     \* stream->max_target_bitrate
    target_bitrate,         \* stream->target_bitrate
    upload_bw,              \* the RTP session's target upload bandwidth
    enc_bitrate,            \* the bitrate the encoder last accepted (MS_FILTER_SET_BITRATE)
    bw_estimator,           \* [enabled, instantiated]: the session's audio bandwidth estimator
    duplicate_rate,         \* the estimator's duplicate rate
    video_preset,           \* the video stream's preset: NULL, "custom" or "high-fps"
    vconf_list,             \* the encoder's configuration list: NULL or "list"
    required_bitrate,       \* required_bitrate of the encoder's current configuration
    video_quality_controller, \* stream->video_quality_controller: NULL or "vqc"
    vqc_ceiling,            \* the ceiling the quality controller was last fed
    \* ---- FlexFEC
    fec_session,            \* sessions.fec_session: NULL or "fec_session"
    fec_cfg,                \* what the secondary session was last configured with
    fec_session_fec_stream, \* sessions.fec_session->fec_stream: NULL or "attached"
    bundle_fec_bindings,    \* number of rtp_bundle_add_fec_session calls made
    ms_fec_stream,          \* ms->fec_stream: 0 (NULL) or the number of the FecStream
    fec_streams_created,    \* number of FecStream objects created (fec_stream_new)
    fec_params,             \* FecParameters of the FecStream in ms->fec_stream
    jitter_comp,            \* the primary session's jitter compensation, in ms
    \* ---- lifecycle, liveness and the tick
    state,                  \* stream->state: "MSStreamInitialized" or "MSStreamStarted"
    start_time,             \* stream->start_time
    is_beginning,           \* stream->is_beginning
    rtcp_report_interval,   \* the RTP session's RTCP report interval, in ms
    last_packet_time,       \* stream->last_packet_time
    last_packet_count,      \* stream->last_packet_count
    last_iterate_time,      \* stream->last_iterate_time
    now,                    \* the clock read by ms_time(NULL), in seconds
    recv,                   \* stats->recv: packets the RTP session received so far
    evq,                    \* stream->evq: the events queued by the RTP session
    rc_enable,              \* stream->rc_enable
    rc,                     \* stream->rc: NULL or "rc"
    qi,                     \* stream->qi: NULL or "qi"
    direction,              \* stream->direction
    trace,                  \* what the last media_stream_iterate did, in order
    last_arrival,           \* history: when the last RTP packet arrived (0: none)
    polled_since_arrival,   \* history: media_stream_alive sampled the count since then
    rtcp_seen,              \* history: an RTCP packet was received
    \* ---- ownership of the sessions and teardown
    owns_sessions,          \* stream->owns_sessions
    rtp_session,            \* sessions.rtp_session: NULL or "rtp_session"
    ticker,                 \* sessions.ticker: NULL or "ticker"
    caller,                 \* the MSMediaStreamSessions the caller holds
    released,               \* history: how many times each sub-resource was released
    stream_freed,           \* media_stream_free has run (or crashed) on the stream
    free_pc,                \* the step a running media_stream_free is at (0: not called)
    free_go,                \* media_stream_free: what it read from owns_sessions
    reclaim_pc,             \* where a running media_stream_reclaim_sessions is
    reclaim_left,           \* reclaim: the fields memcpy has not copied yet
    free_log,               \* what media_stream_free did, in order
    \* ---- the VideoToolbox decoder
    vt_session,             \* _session: NULL or "session"
    vt_destroying,          \* _destroying
    vt_freeze,              \* _freeze
    vt_queue,               \* _queue: the decoded frames waiting for fetch
    vt_mutex,               \* _mutex: NULL or the thread holding it
    vt_pending,             \* frames the decoding session has not called back for yet
    vt_cb,                  \* the call of outputCb in progress, or NoCall
    vt_pc,                  \* where the thread calling feed is
    vt_cont,                \* where that thread goes when destroyDecoder returns
    vt_in,                  \* the encoded frame given to the feed in progress
    vt_ps_complete,         \* _psStore->psGatheringCompleted()
    vt_next,                \* the number of the next frame submitted for decoding
    vt_delivered,           \* history: the entries outputCb pushed, in order
    vt_fetched,             \* history: the entries fetch removed, in order
    vt_unguarded,           \* history: accesses to _destroying made without _mutex
    vt_need_key,            \* history: the session was invalidated, no key frame since
    \* ---- the ticker priority
    MS_AUDIO_PRIO,          \* the environment variable MS_AUDIO_PRIO
    MS_VIDEO_PRIO,          \* the environment variable MS_VIDEO_PRIO
    target,                 \* the target the library is built for
    \* ---- construction of the transport
    rtpr,                   \* the RTP session ms_create_duplex_rtp_session last made
    multicast_group,        \* the multicast group the stream's session has joined
    \* ---- the primary RTP session's modes
    rtp_session_modes,      \* scheduling mode, blocking mode and AVPF TMMBR feature of sessions.rtp_session
    \* ---- the TMMBR handler
    rtpfb_type              \* history: feedback type of the RTPFB sub-packet dispatched last

cryptoVars == <<cs_desc, cs_suite, cs_out>>

secVars == <<zrtp_context, dtls_context, dtls_mtu, srtp_context, stun_allowed,
             ice_check_list, bundle_role, rtpsend, stun_enabled, stun_forced>>

tmmbrVars == <<type, encoder, max_target_bitrate, target_bitrate, upload_bw, enc_bitrate,
               bw_estimator, duplicate_rate, video_preset, vconf_list, required_bitrate,
               video_quality_controller, vqc_ceiling>>

fecVars == <<fec_session, fec_cfg, fec_session_fec_stream, bundle_fec_bindings,
             ms_fec_stream, fec_streams_created, fec_params, jitter_comp>>

liveVars == <<state, start_time, is_beginning, rtcp_report_interval, last_packet_time,
              last_packet_count, last_iterate_time, now, recv, evq, rc_enable, rc, qi,
              direction, trace, last_arrival, polled_since_arrival, rtcp_seen>>

ownVars == <<owns_sessions, rtp_session, ticker, caller, released, stream_freed, free_pc,
             free_go, reclaim_pc, reclaim_left, free_log>>

vtVars == <<vt_session, vt_destroying, vt_freeze, vt_queue, vt_mutex, vt_pending, vt_cb,
            vt_pc, vt_cont, vt_in, vt_ps_complete, vt_next, vt_delivered, vt_fetched,
            vt_unguarded, vt_need_key>>

prioVars == <<MS_AUDIO_PRIO, MS_VIDEO_PRIO, target>>

transportVars == <<rtpr, multicast_group>>

primaryVars == <<rtp_session_modes>>

handlerVars == <<rtpfb_type>>

vars == <<ret, cryptoVars, secVars, tmmbrVars, fecVars, liveVars, ownVars, vtVars, prioVars, transportVars, primaryVars, handlerVars>>

\* A null pointer (NULL in the C source).
NULL == "NULL"

\* The state of `ret` before any operation was called.
NoOp == [op |-> "none"]

(***************************************************************************)
(* SDP security descriptions: name/params <-> MSCryptoSuite                *)
(***************************************************************************)

\* Longest params string explored, in tokens.
MaxParams == 2

\* The session-parameter tokens explored; "KDR=1" is one the code does not
\* look for.
Tokens == {"UNENCRYPTED_SRTP", "UNENCRYPTED_SRTCP", "UNAUTHENTICATED_SRTP", "KDR=1"}

\* The suite names explored; the last one is an IANA name the code does not
\* support.
SuiteNames ==
    {"AES_CM_128_HMAC_SHA1_80", "AES_CM_128_HMAC_SHA1_32", "AES_256_CM_HMAC_SHA1_32",
     "AES_256_CM_HMAC_SHA1_80", "AES_CM_256_HMAC_SHA1_80", "AEAD_AES_128_GCM",
     "AEAD_AES_256_GCM", "F8_128_HMAC_SHA1_80"}

\* A params string: a null pointer, or a space-separated list of tokens.
NullParams == [null |-> TRUE, toks |-> <<>>]

ParamString(toks) == [null |-> FALSE, toks |-> toks]

ParamStrings == {NullParams} \cup {ParamString(t) : t \in UNION {[1..n -> Tokens] : n \in 0..MaxParams}}

\* keywordcmp(key, b): strncmp over sizeof(key) bytes, i.e. including the
\* terminating NUL of the literal, so 0 exactly when the strings are equal.
keywordcmp(key, b) == IF key = b THEN 0 ELSE 1

\* strstr(parameters, keyword) != NULL.  No keyword contains a space and no
\* token explored contains another one as a substring (UNENCRYPTED_SRTCP does
\* not contain UNENCRYPTED_SRTP), so the keyword is found exactly when it is
\* one of the tokens.
strstr(parameters, keyword) ==
    \E i \in 1..Len(parameters.toks) : parameters.toks[i] = keyword

\* The params test with the slip of testing for UNENCRYPTED_SRTP alone before
\* testing for both UNENCRYPTED tokens.
params_arm_order(parameters) ==
    IF ~parameters.null /\ strstr(parameters, "UNENCRYPTED_SRTP") THEN "srtp"
    ELSE IF ~parameters.null /\ strstr(parameters, "UNENCRYPTED_SRTP")
                             /\ strstr(parameters, "UNENCRYPTED_SRTCP") THEN "both"
    ELSE IF ~parameters.null /\ strstr(parameters, "UNENCRYPTED_SRTCP") THEN "srtcp"
    ELSE IF ~parameters.null /\ strstr(parameters, "UNAUTHENTICATED_SRTP") THEN "noauth"
    ELSE "plain"

\* The params test with the slip of leaving out the UNAUTHENTICATED_SRTP arm.
params_arm_noauth(parameters) ==
    IF ~parameters.null /\ strstr(parameters, "UNENCRYPTED_SRTP")
                        /\ strstr(parameters, "UNENCRYPTED_SRTCP") THEN "both"
    ELSE IF ~parameters.null /\ strstr(parameters, "UNENCRYPTED_SRTP") THEN "srtp"
    ELSE IF ~parameters.null /\ strstr(parameters, "UNENCRYPTED_SRTCP") THEN "srtcp"
    ELSE "plain"

\* The four-way params test that every branch of
\* ms_crypto_suite_build_from_name_params starts with: the arm that is taken.
params_arm(parameters) ==
    IF ~parameters.null /\ strstr(parameters, "UNENCRYPTED_SRTP")
                        /\ strstr(parameters, "UNENCRYPTED_SRTCP") THEN "both"
    ELSE IF ~parameters.null /\ strstr(parameters, "UNENCRYPTED_SRTP") THEN "srtp"
    ELSE IF ~parameters.null /\ strstr(parameters, "UNENCRYPTED_SRTCP") THEN "srtcp"
    ELSE IF ~parameters.null /\ strstr(parameters, "UNAUTHENTICATED_SRTP") THEN "noauth"
    ELSE "plain"

\* ms_crypto_suite_build_from_name_params: the suite of an SDP descriptor.
ms_crypto_suite_build_from_name_params(descrption) ==
    LET name == descrption.name
        arm  == params_arm(descrption.params)
    IN  IF keywordcmp("AES_CM_128_HMAC_SHA1_80", name) = 0 THEN
            CASE arm = "both"   -> "MS_AES_128_SHA1_80_NO_CIPHER"
              [] arm = "srtp"   -> "MS_AES_128_SHA1_80_SRTP_NO_CIPHER"
              [] arm = "srtcp"  -> "MS_AES_128_SHA1_80_SRTCP_NO_CIPHER"
              [] arm = "noauth" -> "MS_AES_128_SHA1_80_NO_AUTH"
              [] OTHER          -> "MS_AES_128_SHA1_80"
        ELSE IF keywordcmp("AES_CM_128_HMAC_SHA1_32", name) = 0 THEN
            CASE arm \in {"both", "srtp", "srtcp"} -> "MS_CRYPTO_SUITE_INVALID"
              [] arm = "noauth" -> "MS_AES_128_SHA1_32_NO_AUTH"
              [] OTHER          -> "MS_AES_128_SHA1_32"
        ELSE IF keywordcmp("AES_256_CM_HMAC_SHA1_32", name) = 0 THEN
            IF arm # "plain" THEN "MS_CRYPTO_SUITE_INVALID" ELSE "MS_AES_256_SHA1_32"
        ELSE IF keywordcmp("AES_256_CM_HMAC_SHA1_80", name) = 0 THEN
            IF arm # "plain" THEN "MS_CRYPTO_SUITE_INVALID" ELSE "MS_AES_256_SHA1_80"
        ELSE IF keywordcmp("AES_CM_256_HMAC_SHA1_80", name) = 0 THEN
            IF arm # "plain" THEN "MS_CRYPTO_SUITE_INVALID" ELSE "MS_AES_CM_256_SHA1_80"
        ELSE IF keywordcmp("AEAD_AES_128_GCM", name) = 0 THEN
            IF arm # "plain" THEN "MS_CRYPTO_SUITE_INVALID" ELSE "MS_AEAD_AES_128_GCM"
        ELSE IF keywordcmp("AEAD_AES_256_GCM", name) = 0 THEN
            IF arm # "plain" THEN "MS_CRYPTO_SUITE_INVALID" ELSE "MS_AEAD_AES_256_GCM"
        ELSE "MS_CRYPTO_SUITE_INVALID"

\* ms_crypto_suite_to_name_params: the SDP descriptor of a suite and the
\* status returned (-1 when no name was set).
ms_crypto_suite_to_name_params(cs) ==
    LET d == CASE cs = "MS_AES_128_SHA1_80" ->
                    [name |-> "AES_CM_128_HMAC_SHA1_80", params |-> NullParams]
               [] cs = "MS_AES_128_SHA1_32" ->
                    [name |-> "AES_CM_128_HMAC_SHA1_32", params |-> NullParams]
               [] cs = "MS_AES_128_SHA1_80_NO_AUTH" ->
                    [name |-> "AES_CM_128_HMAC_SHA1_80", params |-> ParamString(<<"UNAUTHENTICATED_SRTP">>)]
               [] cs = "MS_AES_128_SHA1_32_NO_AUTH" ->
                    [name |-> "AES_CM_128_HMAC_SHA1_32", params |-> ParamString(<<"UNAUTHENTICATED_SRTP">>)]
               [] cs = "MS_AES_128_SHA1_80_SRTP_NO_CIPHER" ->
                    [name |-> "AES_CM_128_HMAC_SHA1_80", params |-> ParamString(<<"UNENCRYPTED_SRTP">>)]
               [] cs = "MS_AES_128_SHA1_80_SRTCP_NO_CIPHER" ->
                    [name |-> "AES_CM_128_HMAC_SHA1_80", params |-> ParamString(<<"UNENCRYPTED_SRTCP">>)]
               [] cs = "MS_AES_128_SHA1_80_NO_CIPHER" ->
                    [name |-> "AES_CM_128_HMAC_SHA1_80",
                     params |-> ParamString(<<"UNENCRYPTED_SRTP", "UNENCRYPTED_SRTCP">>)]
               [] cs = "MS_AES_256_SHA1_80" ->
                    [name |-> "AES_256_CM_HMAC_SHA1_80", params |-> NullParams]
               [] cs = "MS_AES_CM_256_SHA1_80" ->
                    [name |-> "AES_CM_256_HMAC_SHA1_80", params |-> NullParams]
               [] cs = "MS_AES_256_SHA1_32" ->
                    [name |-> "AES_256_CM_HMAC_SHA1_32", params |-> NullParams]
               [] cs = "MS_AEAD_AES_128_GCM" ->
                    [name |-> "AEAD_AES_128_GCM", params |-> NullParams]
               [] cs = "MS_AEAD_AES_256_GCM" ->
                    [name |-> "AEAD_AES_256_GCM", params |-> NullParams]
               [] OTHER ->
                    [name |-> NULL, params |-> NullParams]
    IN  [status |-> IF d.name = NULL THEN -1 ELSE 0, name |-> d.name, params |-> d.params]

\* The slip of taking only the suite without any cipher for unencrypted.
ms_crypto_suite_is_unencrypted_both_only(cs) == cs = "MS_AES_128_SHA1_80_NO_CIPHER"

\* ms_crypto_suite_is_unencrypted
ms_crypto_suite_is_unencrypted(cs) ==
    \/ cs = "MS_AES_128_SHA1_80_SRTP_NO_CIPHER"
    \/ cs = "MS_AES_128_SHA1_80_SRTCP_NO_CIPHER"
    \/ cs = "MS_AES_128_SHA1_80_NO_CIPHER"

\* ms_crypto_suite_is_unauthenticated
ms_crypto_suite_is_unauthenticated(cs) ==
    cs = "MS_AES_128_SHA1_80_NO_AUTH" \/ cs = "MS_AES_128_SHA1_32_NO_AUTH"

\* Nothing converted yet.
CryptoInit ==
    /\ cs_desc = [name |-> NULL, params |-> NullParams]
    /\ cs_suite = NULL
    /\ cs_out = [status |-> 0, name |-> NULL, params |-> NullParams]

\* A caller converts an SDP descriptor to a suite and the suite back to a
\* descriptor, and asks how the suite is classified.
CryptoRoundTrip ==
    \E name \in SuiteNames, params \in ParamStrings :
        LET d == [name |-> name, params |-> params]
        IN  /\ cs_desc' = d
            /\ cs_suite' = ms_crypto_suite_build_from_name_params(d)
            /\ cs_out' = ms_crypto_suite_to_name_params(ms_crypto_suite_build_from_name_params(d))
            /\ ret' = [op |-> "crypto_round_trip",
                       unencrypted |->
                           ms_crypto_suite_is_unencrypted(ms_crypto_suite_build_from_name_params(d)),
                       unauthenticated |->
                           ms_crypto_suite_is_unauthenticated(ms_crypto_suite_build_from_name_params(d))]

CryptoNext == CryptoRoundTrip /\ UNCHANGED <<secVars, tmmbrVars, fecVars, liveVars, ownVars, vtVars, prioVars, transportVars, primaryVars, handlerVars>>

(***************************************************************************)
(* Security contexts: ZRTP, DTLS-SRTP, SDES, and the dummy STUN packets    *)
(***************************************************************************)

\* ms_factory_get_mtu(stream->factory): the factory's MTU, used when the DTLS
\* params give none.
ms_factory_get_mtu == 1440

\* The mtu values of the MSDtlsSrtpParams explored (0: use the factory's).
DtlsMtus == {0, 1200}

\* media_stream_init: the stream takes a copy of the sessions it is given,
\* which may already hold a security context; no rtpsend filter yet or one
\* created by the stream's start.
SecInit ==
    /\ zrtp_context \in {NULL, "zrtp"}
    /\ dtls_context = NULL
    /\ dtls_mtu = 0
    /\ srtp_context \in {NULL, "srtp"}
    /\ ~(zrtp_context # NULL /\ srtp_context # NULL)
    /\ stun_allowed = TRUE
    /\ ice_check_list = NULL
    /\ bundle_role \in {"none", "primary", "secondary"}
    /\ rtpsend \in {NULL, "rtpsend"}
    /\ stun_enabled = FALSE
    /\ stun_forced = FALSE

\* The security component of a stream the other specifications leave alone.
SecIdle ==
    /\ zrtp_context = NULL
    /\ dtls_context = NULL
    /\ dtls_mtu = 0
    /\ srtp_context = NULL
    /\ stun_allowed = TRUE
    /\ ice_check_list = NULL
    /\ bundle_role = "none"
    /\ rtpsend = NULL
    /\ stun_enabled = FALSE
    /\ stun_forced = FALSE

\* The slip of taking a secondary stream of a bundle for one that needs the
\* dummy STUN packets.
media_stream_configure_stun_packet_sending_exposed(dtls, cl) ==
    LET enabled == IF bundle_role = "secondary" THEN stun_allowed
                   ELSE IF cl # NULL THEN FALSE
                   ELSE stun_allowed
    IN  IF rtpsend # NULL
        THEN <<enabled, IF dtls # NULL THEN enabled ELSE stun_forced>>
        ELSE <<stun_enabled, stun_forced>>

\* media_stream_configure_stun_packet_sending, given the DTLS context and the
\* check list in force when it runs: the new <<stun_enabled, stun_forced>>.
media_stream_configure_stun_packet_sending(dtls, cl) ==
    LET enabled == IF cl # NULL THEN FALSE
                   ELSE IF bundle_role = "secondary" THEN FALSE
                   ELSE stun_allowed
    IN  IF rtpsend # NULL
        THEN <<enabled, IF dtls # NULL THEN enabled ELSE stun_forced>>
        ELSE <<stun_enabled, stun_forced>>

\* The slip of creating the DTLS context only when no ZRTP context exists.
media_stream_enable_dtls_exclusive(params) ==
    /\ IF dtls_context = NULL /\ zrtp_context = NULL
       THEN \E new \in {NULL, "dtls"} :
            LET mtu == IF params.mtu = 0 THEN ms_factory_get_mtu ELSE params.mtu
                cfg == media_stream_configure_stun_packet_sending(new, ice_check_list)
            IN  /\ dtls_context' = new
                /\ dtls_mtu' = IF new = NULL THEN 0 ELSE mtu
                /\ stun_enabled' = cfg[1]
                /\ stun_forced' = cfg[2]
                /\ ret' = [op |-> "enable_dtls", created |-> TRUE, new |-> new]
       ELSE /\ UNCHANGED <<dtls_context, dtls_mtu, stun_enabled, stun_forced>>
            /\ ret' = [op |-> "enable_dtls", created |-> FALSE, new |-> NULL]
    /\ UNCHANGED <<zrtp_context, srtp_context, stun_allowed, ice_check_list, bundle_role, rtpsend>>

\* media_stream_enable_dtls: if the stream has no DTLS context, ask the DTLS
\* engine for one (ms_dtls_srtp_context_new, which may deliver none) and
\* reconfigure the dummy STUN packets.
media_stream_enable_dtls(params) ==
    /\ IF dtls_context = NULL
       THEN \E new \in {NULL, "dtls"} :
            LET mtu == IF params.mtu = 0 THEN ms_factory_get_mtu ELSE params.mtu
                cfg == media_stream_configure_stun_packet_sending(new, ice_check_list)
            IN  /\ dtls_context' = new
                /\ dtls_mtu' = IF new = NULL THEN 0 ELSE mtu
                /\ stun_enabled' = cfg[1]
                /\ stun_forced' = cfg[2]
                /\ ret' = [op |-> "enable_dtls", created |-> TRUE, new |-> new]
       ELSE /\ UNCHANGED <<dtls_context, dtls_mtu, stun_enabled, stun_forced>>
            /\ ret' = [op |-> "enable_dtls", created |-> FALSE, new |-> NULL]
    /\ UNCHANGED <<zrtp_context, srtp_context, stun_allowed, ice_check_list, bundle_role, rtpsend>>

\* media_stream_set_ice_check_list
media_stream_set_ice_check_list(cl) ==
    LET cfg == media_stream_configure_stun_packet_sending(dtls_context, cl)
    IN  /\ ice_check_list' = cl
        /\ stun_enabled' = cfg[1]
        /\ stun_forced' = cfg[2]
        /\ ret' = [op |-> "set_ice_check_list"]
        /\ UNCHANGED <<zrtp_context, dtls_context, dtls_mtu, srtp_context, stun_allowed,
                       bundle_role, rtpsend>>

\* media_stream_set_stun_allowed
media_stream_set_stun_allowed(value) ==
    /\ stun_allowed' = value
    /\ ret' = [op |-> "set_stun_allowed"]
    /\ UNCHANGED <<zrtp_context, dtls_context, dtls_mtu, srtp_context, ice_check_list,
                   bundle_role, rtpsend, stun_enabled, stun_forced>>

\* enable_zrtp (audio_stream_enable_zrtp and its video twin are not part of
\* the sources at hand): creates the ZRTP context only if no security context
\* is active.
enable_zrtp ==
    /\ IF zrtp_context = NULL /\ dtls_context = NULL /\ srtp_context = NULL
       THEN zrtp_context' = "zrtp" /\ ret' = [op |-> "enable_zrtp", created |-> TRUE]
       ELSE UNCHANGED zrtp_context /\ ret' = [op |-> "enable_zrtp", created |-> FALSE]
    /\ UNCHANGED <<dtls_context, dtls_mtu, srtp_context, stun_allowed, ice_check_list,
                   bundle_role, rtpsend, stun_enabled, stun_forced>>

\* ms_media_stream_sessions_set_srtp_recv_key_b64 / _send_key_b64 (not part of
\* the sources at hand): installs an SDES key, creating the SRTP context only
\* if no security context is active; `ok` is whether the key was accepted.
ms_media_stream_sessions_set_srtp_key_b64(ctx, ok) ==
    IF ok /\ ctx = NULL /\ zrtp_context = NULL /\ dtls_context = NULL THEN "srtp" ELSE ctx

\* media_stream_enable_srtp: the send key is installed only if the receive key
\* was accepted; TRUE iff both were.
media_stream_enable_srtp(rcv_ok, snd_ok) ==
    LET after_rcv == ms_media_stream_sessions_set_srtp_key_b64(srtp_context, rcv_ok)
        after_snd == IF rcv_ok THEN ms_media_stream_sessions_set_srtp_key_b64(after_rcv, snd_ok)
                     ELSE after_rcv
    IN  /\ srtp_context' = after_snd
        /\ ret' = [op |-> "enable_srtp", result |-> rcv_ok /\ snd_ok]
        /\ UNCHANGED <<zrtp_context, dtls_context, dtls_mtu, stun_allowed, ice_check_list,
                       bundle_role, rtpsend, stun_enabled, stun_forced>>

SecNext ==
    /\ \/ \E mtu \in DtlsMtus : media_stream_enable_dtls([mtu |-> mtu])
       \/ \E cl \in {NULL, "cl"} : media_stream_set_ice_check_list(cl)
       \/ \E value \in BOOLEAN : media_stream_set_stun_allowed(value)
       \/ enable_zrtp
       \/ \E rcv_ok, snd_ok \in BOOLEAN : media_stream_enable_srtp(rcv_ok, snd_ok)
    /\ UNCHANGED <<cryptoVars, tmmbrVars, fecVars, liveVars, ownVars, vtVars, prioVars, transportVars, primaryVars, handlerVars>>

(***************************************************************************)
(* TMMBR: the adaptive bitrate controller                                  *)
(***************************************************************************)

\* INT_MAX of <limits.h>, for a 32-bit int.
INT_MAX == 2147483647

\* A uint64_t is kept as hi * 2^31 + lo with 0 <= lo <= INT_MAX, so that the
\* values around and beyond INT_MAX are told apart.
U64(hi, lo) == [hi |-> hi, lo |-> lo]

\* The TMMBR max-bitrate values explored: the spec's example values, the
\* values around INT_MAX, and values that need more than 32 bits.
TmmbrValues ==
    {U64(0, 0), U64(0, 300000), U64(0, 500000), U64(0, INT_MAX - 1), U64(0, INT_MAX),
     U64(1, 0), U64(3, 7)}

\* The user ceilings explored (<= 0: none).
MaxBitrates == {-1, 0, 300000}

\* The duplicate rates explored.
DuplicateRates == {1, 2, 10}

\* The bitrate limits of the encoder's configuration table, best first.
VconfLimits == <<1000000, 400000, 100000>>

\* v / r on uint64_t, for a divisor 1 <= r <= INT_MAX.
u64_div(v, r) ==
    LET qB == (INT_MAX \div r) + (IF (INT_MAX % r) = r - 1 THEN 1 ELSE 0)
        rB == ((INT_MAX % r) + 1) % r
        qh == v.hi \div r
        rh == v.hi % r
        ql == v.lo \div r
        rl == v.lo % r
    IN  IF r = 1 THEN v ELSE U64(qh, rh * qB + ql + ((rh * rB + rl) \div r))

\* v - w on uint64_t, for w <= v.
u64_sub(v, w) ==
    IF v.lo >= w.lo THEN U64(v.hi - w.hi, v.lo - w.lo)
    ELSE U64(v.hi - w.hi - 1, (INT_MAX - w.lo) + v.lo + 1)

\* The slip of correcting the value for a stream of any type.
tmmbr_corrected_any_type(tmmbr_mxtbr) ==
    IF bw_estimator.enabled /\ bw_estimator.instantiated
    THEN u64_sub(tmmbr_mxtbr, u64_div(tmmbr_mxtbr, duplicate_rate))
    ELSE tmmbr_mxtbr

\* The first step of media_stream_process_tmmbr: an audio stream whose
\* session has the bandwidth estimator enabled and instantiated lowers the
\* value by value / duplicate_rate.
tmmbr_corrected(tmmbr_mxtbr) ==
    IF type = "MSAudio" /\ bw_estimator.enabled /\ bw_estimator.instantiated
    THEN u64_sub(tmmbr_mxtbr, u64_div(tmmbr_mxtbr, duplicate_rate))
    ELSE tmmbr_mxtbr

\* The slip of clamping to INT_MAX by truncating to the low 31 bits.
tmmbr_to_int_truncating(tmmbr_mxtbr) == tmmbr_mxtbr.lo

\* The conversion of the uint64_t value to br_int.
tmmbr_to_int(tmmbr_mxtbr) ==
    IF tmmbr_mxtbr.hi = 0 /\ tmmbr_mxtbr.lo < INT_MAX THEN tmmbr_mxtbr.lo ELSE INT_MAX

\* The slip of comparing the new limit with target_bitrate, not with the
\* session's target upload bandwidth.
previous_br_limit_from_target == target_bitrate

\* previous_br_limit of update_bitrate_limit_from_tmmbr.
previous_br_limit == upload_bw

\* The slip of applying the limit to a stream that has no encoder.
update_bitrate_limit_from_tmmbr_without_encoder(br_limit, enc_ok) ==
    LET capped == IF max_target_bitrate > 0 /\ br_limit > max_target_bitrate
                  THEN max_target_bitrate ELSE br_limit
        same   == [result |-> -1, called |-> FALSE, target |-> target_bitrate,
                   upload |-> upload_bw, enc |-> enc_bitrate]
    IN  IF previous_br_limit = capped THEN same
        ELSE [result |-> capped,
              called |-> type # "MSVideo" /\ encoder # NULL,
              target |-> capped,
              upload |-> capped,
              enc    |-> IF type # "MSVideo" /\ encoder # NULL /\ enc_ok
                         THEN capped ELSE enc_bitrate]

\* The slip of giving up when the encoder refuses the new bitrate.
update_bitrate_limit_from_tmmbr_aborting(br_limit, enc_ok) ==
    LET capped == IF max_target_bitrate > 0 /\ br_limit > max_target_bitrate
                  THEN max_target_bitrate ELSE br_limit
        same   == [result |-> -1, called |-> FALSE, target |-> target_bitrate,
                   upload |-> upload_bw, enc |-> enc_bitrate]
    IN  IF encoder = NULL THEN same
        ELSE IF previous_br_limit = capped THEN same
        ELSE IF type # "MSVideo" /\ ~enc_ok THEN [same EXCEPT !.called = TRUE]
        ELSE [result |-> capped,
              called |-> type # "MSVideo",
              target |-> capped,
              upload |-> capped,
              enc    |-> IF type # "MSVideo" THEN capped ELSE enc_bitrate]

\* update_bitrate_limit_from_tmmbr: [result, called, target, upload, enc]: the
\* value returned (-1: nothing done), whether the encoder's bitrate-set was
\* called, and the new target_bitrate, upload bandwidth and encoder bitrate.
update_bitrate_limit_from_tmmbr(br_limit, enc_ok) ==
    LET capped == IF max_target_bitrate > 0 /\ br_limit > max_target_bitrate
                  THEN max_target_bitrate ELSE br_limit
        same   == [result |-> -1, called |-> FALSE, target |-> target_bitrate,
                   upload |-> upload_bw, enc |-> enc_bitrate]
    IN  IF encoder = NULL THEN same
        ELSE IF previous_br_limit = capped THEN same
        ELSE [result |-> capped,
              called |-> type # "MSVideo",
              target |-> capped,
              upload |-> capped,
              enc    |-> IF type # "MSVideo" /\ enc_ok THEN capped ELSE enc_bitrate]

\* ms_video_find_best_configuration_for_size_and_bitrate (not part of the
\* sources at hand), reduced to the bitrate limit of the configuration it
\* selects: the best configuration whose bitrate limit does not exceed the
\* cap, the last one if there is none.
ms_video_find_best_configuration_for_size_and_bitrate(bitrate) ==
    LET fit == {i \in 1..Len(VconfLimits) : VconfLimits[i] <= bitrate}
    IN  IF fit = {} THEN VconfLimits[Len(VconfLimits)]
        ELSE VconfLimits[CHOOSE i \in fit : \A j \in fit : i <= j]

\* The slip of requiring the bitrate limit of the configuration selected.
new_bitrate_limit_of_table(br_int, bitrate_limit) == bitrate_limit

\* media_stream_process_tmmbr: the required bitrate put in the configuration
\* pushed to the encoder of a "custom" video stream.
new_bitrate_limit(br_int, bitrate_limit) ==
    IF br_int < bitrate_limit THEN br_int ELSE bitrate_limit

\* The slip of making a new quality controller for every TMMBR applied.
vqc_created_each_time(feed) == feed

\* media_stream_process_tmmbr: whether ms_video_quality_controller_new is
\* called, given whether the controller is to be fed.
vqc_created(feed) == feed /\ video_quality_controller = NULL

\* media_stream_process_tmmbr (built with VIDEO_ENABLED). enc_ok: whether the
\* encoder accepts the call made to it.
media_stream_process_tmmbr(tmmbr_mxtbr, enc_ok) ==
    LET br_int == tmmbr_to_int(tmmbr_corrected(tmmbr_mxtbr))
        u      == update_bitrate_limit_from_tmmbr(br_int, enc_ok)
        video  == u.result # -1 /\ type = "MSVideo"
        custom == video /\ video_preset = "custom"
        push   == custom /\ vconf_list # NULL
        pushed == new_bitrate_limit(u.result,
                      ms_video_find_best_configuration_for_size_and_bitrate(u.result))
        feed   == video /\ ~custom
    IN  /\ target_bitrate' = u.target
        /\ upload_bw' = u.upload
        /\ enc_bitrate' = u.enc
        /\ required_bitrate' = IF push /\ enc_ok THEN pushed ELSE required_bitrate
        /\ video_quality_controller' = IF feed THEN "vqc" ELSE video_quality_controller
        /\ vqc_ceiling' = IF feed THEN u.result ELSE vqc_ceiling
        /\ ret' = [op |-> "process_tmmbr", v |-> tmmbr_mxtbr, br_int |-> br_int,
                   result |-> u.result, enc_called |-> u.called, enc_ok |-> enc_ok,
                   conf_pushed |-> push, conf_bitrate |-> IF push THEN pushed ELSE -1,
                   vqc_fed |-> feed,
                   vqc_created |-> vqc_created(feed)]
        /\ UNCHANGED <<type, encoder, max_target_bitrate, bw_estimator, duplicate_rate,
                       video_preset, vconf_list>>

\* The slip of taking the max bitrate out of any RTPFB sub-packet.
media_stream_tmmbr_received_any_type(fb_type, tmmbr_mxtbr, enc_ok) ==
    media_stream_process_tmmbr(tmmbr_mxtbr, enc_ok)

\* media_stream_tmmbr_received: the handler registered for RTPFB sub-packets;
\* only the TMMBR feedback type is acted on.
media_stream_tmmbr_received(fb_type, tmmbr_mxtbr, enc_ok) ==
    IF fb_type = "RTCP_RTPFB_TMMBR"
    THEN media_stream_process_tmmbr(tmmbr_mxtbr, enc_ok)
    ELSE /\ ret' = [op |-> "rtpfb_ignored"]
         /\ UNCHANGED tmmbrVars

\* media_stream_set_max_network_bitrate
media_stream_set_max_network_bitrate(max_bitrate) ==
    /\ max_target_bitrate' = max_bitrate
    /\ ret' = [op |-> "set_max_network_bitrate"]
    /\ UNCHANGED <<type, encoder, target_bitrate, upload_bw, enc_bitrate, bw_estimator,
                   duplicate_rate, video_preset, vconf_list, required_bitrate,
                   video_quality_controller, vqc_ceiling>>

\* media_stream_set_target_network_bitrate
media_stream_set_target_network_bitrate(bitrate) ==
    /\ target_bitrate' = bitrate
    /\ ret' = [op |-> "set_target_network_bitrate"]
    /\ UNCHANGED <<type, encoder, max_target_bitrate, upload_bw, enc_bitrate, bw_estimator,
                   duplicate_rate, video_preset, vconf_list, required_bitrate,
                   video_quality_controller, vqc_ceiling>>

\* A stream as its start leaves it: of one type, with or without an encoder,
\* nothing negotiated by TMMBR yet.  The session of a video or text stream
\* is explored without the audio bandwidth estimator and with it enabled and
\* instantiated.
TmmbrInit ==
    /\ type \in {"MSAudio", "MSVideo", "MSText"}
    /\ encoder \in {NULL, "encoder"}
    /\ max_target_bitrate \in MaxBitrates
    /\ target_bitrate = 0
    /\ upload_bw = 0
    /\ enc_bitrate = 0
    /\ bw_estimator \in [enabled : BOOLEAN, instantiated : BOOLEAN]
    /\ (type # "MSAudio" => bw_estimator.enabled = bw_estimator.instantiated)
    /\ duplicate_rate \in DuplicateRates
    /\ (type = "MSVideo" => video_preset \in {NULL, "custom", "high-fps"})
    /\ (type # "MSVideo" => video_preset = NULL)
    /\ (type = "MSVideo" /\ encoder # NULL => vconf_list \in {NULL, "list"})
    /\ (type # "MSVideo" \/ encoder = NULL => vconf_list = NULL)
    /\ required_bitrate = 0
    /\ video_quality_controller = NULL
    /\ vqc_ceiling = 0

\* The bitrate controller of a stream the other specifications leave alone.
TmmbrIdle ==
    /\ type = "MSAudio"
    /\ encoder = NULL
    /\ max_target_bitrate = 0
    /\ target_bitrate = 0
    /\ upload_bw = 0
    /\ enc_bitrate = 0
    /\ bw_estimator = [enabled |-> FALSE, instantiated |-> FALSE]
    /\ duplicate_rate = 1
    /\ video_preset = NULL
    /\ vconf_list = NULL
    /\ required_bitrate = 0
    /\ video_quality_controller = NULL
    /\ vqc_ceiling = 0

TmmbrNext ==
    /\ \/ \E fb_type \in {"RTCP_RTPFB_TMMBR", "RTCP_RTPFB_NACK"}, v \in TmmbrValues, enc_ok \in BOOLEAN :
            media_stream_tmmbr_received(fb_type, v, enc_ok)
       \/ \E b \in MaxBitrates : media_stream_set_max_network_bitrate(b)
       \/ \E b \in {0, 500000} : media_stream_set_target_network_bitrate(b)
    /\ UNCHANGED <<cryptoVars, secVars, fecVars, liveVars, ownVars, vtVars, prioVars, transportVars, primaryVars, handlerVars>>

(***************************************************************************)
(* FlexFEC: the FEC coordinator                                            *)
(***************************************************************************)

\* Largest number of media_stream_handle_fec calls that set FEC up.
MaxFecSetups == 3

\* size of the buffer media_stream_extract_fec_params reads values into
max_size == 10

\* An fmtp string: a null pointer, or "name=value;name=value...", each value
\* a sequence of characters.
NullFmtp == [null |-> TRUE, entries |-> <<>>]

Fmtp(entries) == [null |-> FALSE, entries |-> entries]

Param(name, value) == [name |-> name, value |-> value]

\* The recv_fmtp strings explored.
FmtpSamples ==
    {NullFmtp,
     Fmtp(<<>>),
     Fmtp(<<Param("repair-window", <<"5", "0", "0", "0", "0">>), Param("L", <<"4">>),
            Param("D", <<"2">>)>>),
     Fmtp(<<Param("L", <<"4">>)>>),
     Fmtp(<<Param("D", <<"2">>), Param("repair-window", <<"5", "0", "0", "0", "0">>)>>),
     Fmtp(<<Param("repair-window", <<"2", "0", "0", "0", "0", "0">>), Param("L", <<"2", "5">>)>>),
     Fmtp(<<Param("repair-window", <<"a", "b", "c">>), Param("L", <<"4", "x">>),
            Param("D", <<"-", "3">>)>>),
     Fmtp(<<Param("repair-window", <<"1", "2", "3", "4", "5", "6", "7", "8", "9", "0", "1">>)>>),
     Fmtp(<<Param("D", <<"7">>)>>),
     Fmtp(<<Param("L", <<>>), Param("D", <<"+", "1">>), Param("L", <<"8">>)>>)}

\* The flexfec payload type numbers explored.
FecPayloadNumbers == {115, 116}

\* The profiles explored: without a flexfec payload type, or with one.
Profiles ==
    {[flexfec |-> FALSE, number |-> 0, recv_fmtp |-> NullFmtp]}
    \cup {[flexfec |-> TRUE, number |-> n, recv_fmtp |-> f] : n \in FecPayloadNumbers, f \in FmtpSamples}

\* The value of a decimal digit character.
digit(c) ==
    CASE c = "0" -> 0 [] c = "1" -> 1 [] c = "2" -> 2 [] c = "3" -> 3 [] c = "4" -> 4
      [] c = "5" -> 5 [] c = "6" -> 6 [] c = "7" -> 7 [] c = "8" -> 8 [] c = "9" -> 9
      [] OTHER -> -1

\* The number made of the leading digits of a string, after `acc`.
RECURSIVE atoi_digits(_, _)
atoi_digits(str, acc) ==
    IF str = <<>> \/ digit(Head(str)) < 0 THEN acc
    ELSE atoi_digits(Tail(str), acc * 10 + digit(Head(str)))

\* atoi: an optional sign and the leading digits; 0 when there is no digit.
atoi(str) ==
    IF str # <<>> /\ Head(str) = "-" THEN 0 - atoi_digits(Tail(str), 0)
    ELSE IF str # <<>> /\ Head(str) = "+" THEN atoi_digits(Tail(str), 0)
    ELSE atoi_digits(str, 0)

\* fmtp_get_value(fmtp, param_name, buffer, size): whether the parameter is in
\* the string, and the start of its value that fits the buffer.
fmtp_get_value(fmtp, param_name, size) ==
    LET found == {i \in 1..Len(fmtp.entries) : fmtp.entries[i].name = param_name}
        first == CHOOSE i \in found : \A j \in found : i <= j
        value == fmtp.entries[first].value
    IN  IF fmtp.null \/ found = {} THEN [found |-> FALSE, buffer |-> <<>>]
        ELSE [found |-> TRUE,
              buffer |-> IF Len(value) > size - 1 THEN SubSeq(value, 1, size - 1) ELSE value]

\* The slip of giving up on L and D once repair-window is missing.
media_stream_extract_fec_params_chained(fec_payload_type) ==
    LET rw == fmtp_get_value(fec_payload_type.recv_fmtp, "repair-window", max_size)
        l  == fmtp_get_value(fec_payload_type.recv_fmtp, "L", 10)
        d  == fmtp_get_value(fec_payload_type.recv_fmtp, "D", 10)
    IN  IF ~rw.found THEN [repair_window |-> 100000, L |-> 10, D |-> 0]
        ELSE [repair_window |-> atoi(rw.buffer),
              L |-> IF l.found THEN atoi(l.buffer) ELSE 10,
              D |-> IF d.found THEN atoi(d.buffer) ELSE 0]

\* media_stream_extract_fec_params
media_stream_extract_fec_params(fec_payload_type) ==
    LET rw == fmtp_get_value(fec_payload_type.recv_fmtp, "repair-window", max_size)
        l  == fmtp_get_value(fec_payload_type.recv_fmtp, "L", 10)
        d  == fmtp_get_value(fec_payload_type.recv_fmtp, "D", 10)
    IN  [repair_window |-> IF rw.found THEN atoi(rw.buffer) ELSE 100000,
         L |-> IF l.found THEN atoi(l.buffer) ELSE 10,
         D |-> IF d.found THEN atoi(d.buffer) ELSE 0]

\* The modes a primary RTP session may have been given by its creator:
\* scheduling and blocking mode (0 or 1) and the AVPF TMMBR feature.
SessionModes == [scheduling : {0, 1}, blocking : {0, 1}, avpf_tmmbr : BOOLEAN]

\* The modes ms_create_duplex_rtp_session gives the session it makes.
duplex_modes == [scheduling |-> 0, blocking |-> 0, avpf_tmmbr |-> TRUE]

\* A primary session given to the stream by the application, in any mode.
PrimaryInit == rtp_session_modes \in SessionModes

\* The primary session of a stream the other specifications leave alone.
PrimaryIdle == rtp_session_modes = duplex_modes

\* The secondary session before it is configured, and the parameters of no
\* FecStream.
NoFecCfg == [scheduling |-> 0, blocking |-> 0, avpf_tmmbr |-> FALSE, flexfec |-> FALSE, payload_type |-> 0]

NoFecParams == [repair_window |-> 0, L |-> 0, D |-> 0]

\* The slip of copying the modes of the primary session.
fec_session_modes_copied(primary) == primary

\* media_stream_handle_fec: the modes it gives the secondary session of a
\* stream whose primary session has the modes `primary`.
fec_session_modes(primary) == [scheduling |-> 0, blocking |-> 0, avpf_tmmbr |-> TRUE]

\* The slip of extending the jitter compensation before looking for the
\* flexfec payload type.
media_stream_handle_fec_jitter_first(profile) ==
    IF ~profile.flexfec
    THEN /\ ret' = [op |-> "handle_fec", setup |-> FALSE, profile |-> profile]
         /\ jitter_comp' = 200
         /\ UNCHANGED <<fec_session, fec_cfg, fec_session_fec_stream, bundle_fec_bindings,
                        ms_fec_stream, fec_streams_created, fec_params>>
    ELSE /\ fec_streams_created < MaxFecSetups
         /\ jitter_comp' = 200
         /\ fec_session' = "fec_session"
         /\ fec_cfg' = [scheduling |-> fec_session_modes(rtp_session_modes).scheduling,
                        blocking |-> fec_session_modes(rtp_session_modes).blocking,
                        avpf_tmmbr |-> fec_session_modes(rtp_session_modes).avpf_tmmbr,
                        flexfec |-> TRUE, payload_type |-> profile.number]
         /\ fec_session_fec_stream' = NULL
         /\ bundle_fec_bindings' = bundle_fec_bindings + 1
         /\ fec_params' = media_stream_extract_fec_params(profile)
         /\ fec_streams_created' = fec_streams_created + 1
         /\ ms_fec_stream' = fec_streams_created + 1
         /\ ret' = [op |-> "handle_fec", setup |-> TRUE, profile |-> profile]

\* media_stream_handle_fec
media_stream_handle_fec(profile) ==
    IF ~profile.flexfec
    THEN /\ ret' = [op |-> "handle_fec", setup |-> FALSE, profile |-> profile]
         /\ UNCHANGED fecVars
    ELSE /\ fec_streams_created < MaxFecSetups
         /\ jitter_comp' = 200
         /\ fec_session' = "fec_session"
         /\ fec_cfg' = [scheduling |-> fec_session_modes(rtp_session_modes).scheduling,
                        blocking |-> fec_session_modes(rtp_session_modes).blocking,
                        avpf_tmmbr |-> fec_session_modes(rtp_session_modes).avpf_tmmbr,
                        flexfec |-> TRUE, payload_type |-> profile.number]
         /\ fec_session_fec_stream' = NULL
         /\ bundle_fec_bindings' = bundle_fec_bindings + 1
         /\ fec_params' = media_stream_extract_fec_params(profile)
         /\ fec_streams_created' = fec_streams_created + 1
         /\ ms_fec_stream' = fec_streams_created + 1
         /\ ret' = [op |-> "handle_fec", setup |-> TRUE, profile |-> profile]

\* A stream before FEC is set up; the sessions it was given may already hold
\* a FEC session left by an earlier stream.
FecInit ==
    /\ fec_session \in {NULL, "fec_session"}
    /\ fec_cfg = NoFecCfg
    /\ fec_session_fec_stream = IF fec_session = NULL THEN NULL ELSE "attached"
    /\ bundle_fec_bindings = 0
    /\ ms_fec_stream = 0
    /\ fec_streams_created = 0
    /\ fec_params = NoFecParams
    /\ jitter_comp = 60

\* The FEC state of a stream the other specifications leave alone.
FecIdle ==
    /\ fec_session = NULL
    /\ fec_cfg = NoFecCfg
    /\ fec_session_fec_stream = NULL
    /\ bundle_fec_bindings = 0
    /\ ms_fec_stream = 0
    /\ fec_streams_created = 0
    /\ fec_params = NoFecParams
    /\ jitter_comp = 60

FecNext ==
    /\ \E profile \in Profiles : media_stream_handle_fec(profile)
    /\ UNCHANGED <<cryptoVars, secVars, tmmbrVars, liveVars, ownVars, vtVars, prioVars, transportVars, primaryVars, handlerVars>>

(***************************************************************************)
(* Lifecycle, liveness and the periodic tick                               *)
(***************************************************************************)

\* The last second of the clock explored.
MaxTime == 4

\* The last second of the clock explored by the tick alone.
MaxTickTime == 2

\* The most packets the RTP session receives.
MaxRecv == 2

\* The most events waiting in the queue.
MaxQueue == 2

\* The timeouts media_stream_alive is called with.
Timeouts == {-1, 0, 1, 2}

\* An RTCP sub-packet: its kind and whether it is well-formed.
Sub(kind, ok) == [kind |-> kind, ok |-> ok]

\* An event of the RTP session's queue; only RTCP_PACKET_RECEIVED carries a
\* (compound) packet here.
Event(evt, packet) == [type |-> evt, packet |-> packet]

\* The compound RTCP packets explored.
RtcpPackets ==
    {<<Sub("RR", TRUE), Sub("garbage", FALSE)>>,
     <<Sub("SR", TRUE), Sub("RR", TRUE)>>,
     <<Sub("garbage", FALSE), Sub("RR", TRUE)>>}

\* The events explored; the last is a kind media_stream_iterate does not know.
Events ==
    {Event("ORTP_EVENT_RTCP_PACKET_RECEIVED", p) : p \in RtcpPackets}
    \cup {Event(t, <<>>) : t \in {"ORTP_EVENT_RTCP_PACKET_EMITTED", "ORTP_EVENT_STUN_PACKET_RECEIVED",
                                  "ORTP_EVENT_DTLS_ENCRYPTION_CHANGED",
                                  "ORTP_EVENT_TELEPHONE_EVENT"}}

\* A trace entry: event number (0: before the queue is drained), what was
\* done, and the number of the sub-packet it was done with (0: none or NULL).
Did(ev, step, sub) == [ev |-> ev, step |-> step, sub |-> sub]

\* rtcp_parser_context_init / rtcp_parser_context_next_packet: the numbers of
\* the sub-packets the parser yields, in order. It yields the well-formed
\* sub-packets up to the first malformed one; the do-while body runs once
\* with what rtcp_parser_context_init returned even when that is NULL (0).
rtcp_parser_yield(m) ==
    LET bad   == {j \in 1..Len(m) : ~m[j].ok}
        count == IF bad = {} THEN Len(m) ELSE (CHOOSE j \in bad : \A k \in bad : j <= k) - 1
    IN  IF count = 0 THEN <<0>> ELSE [j \in 1..count |-> j]

\* The slip of leaving the loop of media_stream_process_rtcp before the hook
\* when the packet has a malformed tail.
process_rtcp_body_strict(i, j, m) ==
    (IF rc_enable /\ rc # NULL THEN <<Did(i, "rc_process_rtcp", j)>> ELSE <<>>)
    \o (IF qi # NULL THEN <<Did(i, "qi_update_from_feedback", j)>> ELSE <<>>)
    \o (IF \A k \in 1..Len(m) : m[k].ok THEN <<Did(i, "process_rtcp_hook", j)>> ELSE <<>>)

\* The slip of calling the stream-type hook before the bitrate controller and
\* the quality indicator are fed.
process_rtcp_body_hook_first(i, j, m) ==
    <<Did(i, "process_rtcp_hook", j)>>
    \o (IF rc_enable /\ rc # NULL THEN <<Did(i, "rc_process_rtcp", j)>> ELSE <<>>)
    \o (IF qi # NULL THEN <<Did(i, "qi_update_from_feedback", j)>> ELSE <<>>)

\* The body of the loop of media_stream_process_rtcp for sub-packet j of the
\* packet m of event i.
process_rtcp_body(i, j, m) ==
    (IF rc_enable /\ rc # NULL THEN <<Did(i, "rc_process_rtcp", j)>> ELSE <<>>)
    \o (IF qi # NULL THEN <<Did(i, "qi_update_from_feedback", j)>> ELSE <<>>)
    \o <<Did(i, "process_rtcp_hook", j)>>

\* The loop of media_stream_process_rtcp over the sub-packets yielded.
RECURSIVE process_rtcp_loop(_, _, _)
process_rtcp_loop(i, m, yielded) ==
    IF yielded = <<>> THEN <<>>
    ELSE process_rtcp_body(i, Head(yielded), m) \o process_rtcp_loop(i, m, Tail(yielded))

\* media_stream_process_rtcp for event i: the liveness timestamp is set, then
\* the sub-packets are walked.
media_stream_process_rtcp(i, m) ==
    <<Did(i, "last_packet_time", 0)>> \o process_rtcp_loop(i, m, rtcp_parser_yield(m))

\* The slip of releasing only the events of a known kind.
handle_event_known_only(i, ev) ==
    IF ev.type = "ORTP_EVENT_RTCP_PACKET_RECEIVED"
    THEN media_stream_process_rtcp(i, ev.packet) \o <<Did(i, "ortp_event_destroy", 0)>>
    ELSE IF ev.type = "ORTP_EVENT_RTCP_PACKET_EMITTED"
    THEN <<Did(i, "log_jitter_stats", 0), Did(i, "ortp_event_destroy", 0)>>
    ELSE IF ev.type = "ORTP_EVENT_STUN_PACKET_RECEIVED" /\ ice_check_list # NULL
    THEN <<Did(i, "ice_handle_stun_packet", 0), Did(i, "ortp_event_destroy", 0)>>
    ELSE IF ev.type \in {"ORTP_EVENT_ZRTP_ENCRYPTION_CHANGED", "ORTP_EVENT_DTLS_ENCRYPTION_CHANGED"}
    THEN <<Did(i, "log_secured", 0), Did(i, "ortp_event_destroy", 0)>>
    ELSE <<>>

\* What media_stream_iterate does with the event i it took from the queue.
handle_event(i, ev) ==
    (IF ev.type = "ORTP_EVENT_RTCP_PACKET_RECEIVED" THEN media_stream_process_rtcp(i, ev.packet)
     ELSE IF ev.type = "ORTP_EVENT_RTCP_PACKET_EMITTED" THEN <<Did(i, "log_jitter_stats", 0)>>
     ELSE IF ev.type = "ORTP_EVENT_STUN_PACKET_RECEIVED" /\ ice_check_list # NULL
          THEN <<Did(i, "ice_handle_stun_packet", 0)>>
     ELSE IF ev.type \in {"ORTP_EVENT_ZRTP_ENCRYPTION_CHANGED", "ORTP_EVENT_DTLS_ENCRYPTION_CHANGED"}
          THEN <<Did(i, "log_secured", 0)>>
     ELSE <<>>)
    \o <<Did(i, "ortp_event_destroy", 0)>>

\* The while loop of media_stream_iterate over the queue q, whose head is
\* event number i.
RECURSIVE drain(_, _)
drain(i, q) ==
    IF q = <<>> THEN <<>> ELSE handle_event(i, Head(q)) \o drain(i + 1, Tail(q))

\* The slip of sampling the local quality indicator on every tick of a
\* started stream.
iterate_local_every_tick(curtime) ==
    state = "MSStreamStarted" /\ qi # NULL /\ direction # "MediaStreamSendOnly"

\* media_stream_iterate: whether this tick calls
\* ms_quality_indicator_update_local.
iterate_local(curtime) ==
    state = "MSStreamStarted" /\ qi # NULL /\ curtime > last_iterate_time
    /\ direction # "MediaStreamSendOnly"

\* The slip of switching the report interval as soon as 15 seconds have
\* passed.
iterate_switch_at_15(curtime) ==
    state = "MSStreamStarted" /\ is_beginning /\ curtime - start_time >= 15

\* media_stream_iterate: whether this tick switches the RTCP report interval
\* to 5000 ms.
iterate_switch(curtime) ==
    state = "MSStreamStarted" /\ is_beginning /\ curtime - start_time > 15

\* media_stream_iterate: one tick.
media_stream_iterate ==
    LET curtime == now
        switch  == iterate_switch(curtime)
        local   == iterate_local(curtime)
        rtcp    == \E i \in 1..Len(evq) : evq[i].type = "ORTP_EVENT_RTCP_PACKET_RECEIVED"
    IN  /\ rtcp_report_interval' = IF switch THEN 5000 ELSE rtcp_report_interval
        /\ is_beginning' = IF switch THEN FALSE ELSE is_beginning
        /\ last_iterate_time' = curtime
        /\ last_packet_time' = IF rtcp THEN curtime ELSE last_packet_time
        /\ trace' = (IF ice_check_list # NULL THEN <<Did(0, "ice_check_list_process", 0)>> ELSE <<>>)
                    \o (IF local THEN <<Did(0, "qi_update_local", 0)>> ELSE <<>>)
                    \o (IF rc # NULL THEN <<Did(0, "rc_update", 0)>> ELSE <<>>)
                    \o <<Did(0, "ev_dispatcher_iterate", 0)>>
                    \o drain(1, evq)
        /\ evq' = <<>>
        /\ ret' = [op |-> "iterate", curtime |-> curtime, drained |-> evq]
        /\ UNCHANGED <<state, start_time, last_packet_count, now, recv, rc_enable, rc, qi,
                       direction, last_arrival, polled_since_arrival, rtcp_seen>>

\* The RTP session queues an event for the stream (up to `cap` waiting).
rtp_session_event(ev, cap) ==
    /\ Len(evq) < cap
    /\ evq' = Append(evq, ev)
    /\ rtcp_seen' = (rtcp_seen \/ ev.type = "ORTP_EVENT_RTCP_PACKET_RECEIVED")
    /\ ret' = [op |-> "event"]
    /\ trace' = <<>>
    /\ UNCHANGED <<state, start_time, is_beginning, rtcp_report_interval, last_packet_time,
                   last_packet_count, last_iterate_time, now, recv, rc_enable, rc, qi,
                   direction, last_arrival, polled_since_arrival>>

\* The RTP session receives an RTP packet.
rtp_packet_received ==
    /\ recv < MaxRecv
    /\ recv' = recv + 1
    /\ last_arrival' = now
    /\ polled_since_arrival' = FALSE
    /\ ret' = [op |-> "rtp_packet"]
    /\ trace' = <<>>
    /\ UNCHANGED <<state, start_time, is_beginning, rtcp_report_interval, last_packet_time,
                   last_packet_count, last_iterate_time, now, evq, rc_enable, rc, qi,
                   direction, rtcp_seen>>

\* A second passes (up to second `last`).
clock_tick(last) ==
    /\ now < last
    /\ now' = now + 1
    /\ ret' = [op |-> "clock"]
    /\ trace' = <<>>
    /\ UNCHANGED <<state, start_time, is_beginning, rtcp_report_interval, last_packet_time,
                   last_packet_count, last_iterate_time, recv, evq, rc_enable, rc, qi,
                   direction, last_arrival, polled_since_arrival, rtcp_seen>>

\* The start of the stream (audio_stream_start_from_io and its twins are not
\* part of the sources at hand): entered once; the ticker is attached and
\* start_time recorded. Whether last_packet_time is recorded with it is left
\* open.
stream_start ==
    /\ state = "MSStreamInitialized"
    /\ state' = "MSStreamStarted"
    /\ start_time' = now
    /\ last_packet_time' \in {last_packet_time, now}
    /\ is_beginning' = TRUE
    /\ ret' = [op |-> "start"]
    /\ trace' = <<>>
    /\ UNCHANGED <<rtcp_report_interval, last_packet_count, last_iterate_time, now, recv, evq,
                   rc_enable, rc, qi, direction, last_arrival, polled_since_arrival, rtcp_seen>>

\* The slip of running the liveness test on a stream that is not started.
alive_not_started_skipped == FALSE

\* The first test of media_stream_alive: the stream is not started.
alive_not_started == state # "MSStreamStarted"

\* The slip of timing out as soon as `timeout` seconds have passed.
alive_timed_out_early(since, timeout) == now - since >= timeout

\* The last test of media_stream_alive: more than `timeout` seconds of
\* inactivity since `since`.
alive_timed_out(since, timeout) == now - since > timeout

\* The slip of taking a new sample whenever packets have been received.
alive_fresh_always == recv # 0

\* The middle test of media_stream_alive: packets have been received and
\* their count is not the one sampled last.
alive_fresh == recv # 0 /\ recv # last_packet_count

\* media_stream_alive; both readings of the clock give the same second.
media_stream_alive(timeout) ==
    /\ IF alive_not_started
       THEN /\ ret' = [op |-> "alive", timeout |-> timeout, result |-> TRUE]
            /\ UNCHANGED <<last_packet_count, last_packet_time, polled_since_arrival>>
       ELSE LET fresh == alive_fresh
                since == IF fresh THEN now ELSE last_packet_time
            IN  /\ last_packet_count' = IF fresh THEN recv ELSE last_packet_count
                /\ last_packet_time' = since
                /\ polled_since_arrival' = TRUE
                /\ ret' = [op |-> "alive", timeout |-> timeout,
                           result |-> ~alive_timed_out(since, timeout)]
    /\ trace' = <<>>
    /\ UNCHANGED <<state, start_time, is_beginning, rtcp_report_interval, last_iterate_time,
                   now, recv, evq, rc_enable, rc, qi, direction, last_arrival, rtcp_seen>>

\* A stream after media_stream_init: not started, nothing received; whether
\* it has a bitrate controller and a quality indicator, and whether
\* media_stream_enable_adaptive_bitrate_control enabled the former, is
\* settled here.
LiveInit ==
    /\ state = "MSStreamInitialized"
    /\ start_time = 0
    /\ is_beginning = FALSE
    /\ rtcp_report_interval = 2500
    /\ last_packet_time = 0
    /\ last_packet_count = 0
    /\ last_iterate_time = 0
    /\ now = 1
    /\ recv = 0
    /\ evq = <<>>
    /\ rc_enable \in BOOLEAN
    /\ rc \in {NULL, "rc"}
    /\ qi \in {NULL, "qi"}
    /\ direction = "MediaStreamSendRecv"
    /\ trace = <<>>
    /\ last_arrival = 0
    /\ polled_since_arrival = FALSE
    /\ rtcp_seen = FALSE

\* The lifecycle state of a stream the other specifications leave alone.
LiveIdle ==
    /\ LiveInit
    /\ rc_enable = FALSE
    /\ rc = NULL
    /\ qi = NULL

\* The tick: events arrive, the clock advances, the stream is started and
\* media_stream_iterate runs.
TickNext ==
    /\ \/ media_stream_iterate
       \/ \E ev \in Events : rtp_session_event(ev, MaxQueue)
       \/ clock_tick(MaxTickTime)
       \/ stream_start
    /\ UNCHANGED <<cryptoVars, secVars, tmmbrVars, fecVars, ownVars, vtVars, prioVars, transportVars, primaryVars, handlerVars>>

\* The last second of the clock explored for the RTCP report interval.
MaxIntervalTime == 18

\* The first seconds of a stream: the clock advances, the stream is started
\* and ticks run.
IntervalNext ==
    /\ \/ media_stream_iterate
       \/ clock_tick(MaxIntervalTime)
       \/ stream_start
    /\ UNCHANGED <<cryptoVars, secVars, tmmbrVars, fecVars, ownVars, vtVars, prioVars, transportVars, primaryVars, handlerVars>>

\* Liveness: RTP and RTCP packets arrive, the clock advances, the stream is
\* started, ticks run and media_stream_alive is asked.
LiveNext ==
    /\ \/ \E timeout \in Timeouts : media_stream_alive(timeout)
       \/ rtp_packet_received
       \/ rtp_session_event(Event("ORTP_EVENT_RTCP_PACKET_RECEIVED", <<Sub("RR", TRUE)>>), 1)
       \/ media_stream_iterate
       \/ clock_tick(MaxTime)
       \/ stream_start
    /\ UNCHANGED <<cryptoVars, secVars, tmmbrVars, fecVars, ownVars, vtVars, prioVars, transportVars, primaryVars, handlerVars>>

(***************************************************************************)
(* Direction and the security queries                                      *)
(***************************************************************************)

\* The media types of a stream.
StreamTypes == {"MSAudio", "MSVideo", "MSText", "MSUnknownMedia"}

\* MediaStreamDir
MediaStreamDirs == {"MediaStreamSendRecv", "MediaStreamSendOnly", "MediaStreamRecvOnly"}

\* MSSrtpKeySource
MSSrtpKeySources ==
    {"MSSrtpKeySourceUnavailable", "MSSrtpKeySourceSDES", "MSSrtpKeySourceZRTP",
     "MSSrtpKeySourceDTLS"}

\* The MSCryptoSuite values a session may report.
SessionCryptoSuites == {"MS_CRYPTO_SUITE_INVALID", "MS_AES_128_SHA1_80", "MS_AEAD_AES_256_GCM"}

\* ms_media_stream_sessions_secured, ms_media_stream_sessions_get_srtp_key_source
\* and ms_media_stream_sessions_get_srtp_crypto_suite are not part of the
\* sources at hand: each may answer any value of its type.
ms_media_stream_sessions_secured(dir) == BOOLEAN

ms_media_stream_sessions_get_srtp_key_source(dir, is_inner) == MSSrtpKeySources

ms_media_stream_sessions_get_srtp_crypto_suite(dir, is_inner) == SessionCryptoSuites

\* media_stream_set_direction; `bandwidth_controller` is whether the stream
\* has one, in which case a SendOnly direction makes it elect its streams
\* again.
media_stream_set_direction(dir, bandwidth_controller) ==
    /\ direction' = dir
    /\ ret' = [op |-> "set_direction",
               elected |-> (dir = "MediaStreamSendOnly" /\ bandwidth_controller)]
    /\ trace' = <<>>
    /\ UNCHANGED <<state, start_time, is_beginning, rtcp_report_interval, last_packet_time,
                   last_packet_count, last_iterate_time, now, recv, evq, rc_enable, rc, qi,
                   last_arrival, polled_since_arrival, rtcp_seen>>

\* What media_stream_secured may return.
media_stream_secured_returns ==
    IF state # "MSStreamStarted" THEN {FALSE}
    ELSE IF type \in {"MSAudio", "MSText", "MSVideo"}
         THEN ms_media_stream_sessions_secured(direction)
    ELSE {FALSE}

\* The slip of asking the sessions before the stream is started.
media_stream_get_srtp_key_source_unguarded(dir, is_inner) ==
    IF type \in {"MSAudio", "MSText", "MSVideo"}
    THEN ms_media_stream_sessions_get_srtp_key_source(dir, is_inner)
    ELSE {"MSSrtpKeySourceUnavailable"}

\* What media_stream_get_srtp_key_source may return.
media_stream_get_srtp_key_source_returns(dir, is_inner) ==
    IF state # "MSStreamStarted" THEN {"MSSrtpKeySourceUnavailable"}
    ELSE IF type \in {"MSAudio", "MSText", "MSVideo"}
         THEN ms_media_stream_sessions_get_srtp_key_source(dir, is_inner)
    ELSE {"MSSrtpKeySourceUnavailable"}

\* What media_stream_get_srtp_crypto_suite may return.
media_stream_get_srtp_crypto_suite_returns(dir, is_inner) ==
    IF state # "MSStreamStarted" THEN {"MS_CRYPTO_SUITE_INVALID"}
    ELSE IF type \in {"MSAudio", "MSText", "MSVideo"}
         THEN ms_media_stream_sessions_get_srtp_crypto_suite(dir, is_inner)
    ELSE {"MS_CRYPTO_SUITE_INVALID"}

\* media_stream_secured
media_stream_secured ==
    \E result \in media_stream_secured_returns :
        ret' = [op |-> "secured", dir |-> direction, is_inner |-> FALSE, result |-> result]

\* media_stream_get_srtp_key_source
media_stream_get_srtp_key_source(dir, is_inner) ==
    \E result \in media_stream_get_srtp_key_source_returns(dir, is_inner) :
        ret' = [op |-> "get_srtp_key_source", dir |-> dir, is_inner |-> is_inner,
                result |-> result]

\* media_stream_get_srtp_crypto_suite
media_stream_get_srtp_crypto_suite(dir, is_inner) ==
    \E result \in media_stream_get_srtp_crypto_suite_returns(dir, is_inner) :
        ret' = [op |-> "get_srtp_crypto_suite", dir |-> dir, is_inner |-> is_inner,
                result |-> result]

\* A stream of any media type, not started, with the security contexts its
\* sessions came with.
QueryInit ==
    /\ zrtp_context \in {NULL, "zrtp"}
    /\ dtls_context = NULL
    /\ dtls_mtu = 0
    /\ srtp_context \in {NULL, "srtp"}
    /\ ~(zrtp_context # NULL /\ srtp_context # NULL)
    /\ stun_allowed = TRUE
    /\ ice_check_list = NULL
    /\ bundle_role = "none"
    /\ rtpsend = NULL
    /\ stun_enabled = FALSE
    /\ stun_forced = FALSE
    /\ LiveIdle
    /\ type \in StreamTypes
    /\ encoder = NULL
    /\ max_target_bitrate = 0
    /\ target_bitrate = 0
    /\ upload_bw = 0
    /\ enc_bitrate = 0
    /\ bw_estimator = [enabled |-> FALSE, instantiated |-> FALSE]
    /\ duplicate_rate = 1
    /\ video_preset = NULL
    /\ vconf_list = NULL
    /\ required_bitrate = 0
    /\ video_quality_controller = NULL
    /\ vqc_ceiling = 0

\* The queries, between the security operations, a change of direction and
\* the start of the stream.
QueryNext ==
    \/ /\ \/ media_stream_secured
          \/ \E dir \in MediaStreamDirs, is_inner \in BOOLEAN :
                media_stream_get_srtp_key_source(dir, is_inner)
          \/ \E dir \in MediaStreamDirs, is_inner \in BOOLEAN :
                media_stream_get_srtp_crypto_suite(dir, is_inner)
       /\ UNCHANGED <<cryptoVars, secVars, tmmbrVars, fecVars, liveVars, ownVars, vtVars, prioVars, transportVars, primaryVars, handlerVars>>
    \/ /\ \/ stream_start
          \/ \E dir \in MediaStreamDirs, bc \in BOOLEAN : media_stream_set_direction(dir, bc)
       /\ UNCHANGED <<cryptoVars, secVars, tmmbrVars, fecVars, ownVars, vtVars, prioVars, transportVars, primaryVars, handlerVars>>
    \/ /\ \/ \E mtu \in DtlsMtus : media_stream_enable_dtls([mtu |-> mtu])
          \/ enable_zrtp
          \/ \E rcv_ok, snd_ok \in BOOLEAN : media_stream_enable_srtp(rcv_ok, snd_ok)
       /\ UNCHANGED <<cryptoVars, tmmbrVars, fecVars, liveVars, ownVars, vtVars, prioVars, transportVars, primaryVars, handlerVars>>

\* The last second of the clock explored by the pace of the sampling.
MaxPaceTime == 3

\* The pace of the tick: the clock advances, the stream is started, its
\* direction is set and media_stream_iterate runs, with no event queued.
PaceNext ==
    /\ \/ media_stream_iterate
       \/ clock_tick(MaxPaceTime)
       \/ stream_start
       \/ \E dir \in MediaStreamDirs : media_stream_set_direction(dir, FALSE)
    /\ UNCHANGED <<cryptoVars, secVars, tmmbrVars, fecVars, ownVars, vtVars, prioVars, transportVars, primaryVars, handlerVars>>

(***************************************************************************)
(* Ownership of the sessions, reclaim and teardown                         *)
(***************************************************************************)

\* The sub-resources of an MSMediaStreamSessions that
\* ms_media_stream_sessions_uninit releases, in the order it does.
SessionFields == <<"srtp_context", "rtp_session", "zrtp_context", "dtls_context", "ticker">>

SessionFieldSet == {SessionFields[k] : k \in 1..Len(SessionFields)}

\* An MSMediaStreamSessions holding nothing.
NoSessions == [f \in SessionFieldSet |-> NULL]

\* stream->sessions
sessions ==
    [f \in SessionFieldSet |->
        CASE f = "srtp_context" -> srtp_context
          [] f = "rtp_session"  -> rtp_session
          [] f = "zrtp_context" -> zrtp_context
          [] f = "dtls_context" -> dtls_context
          [] f = "ticker"       -> ticker]

\* stream->sessions becomes s.
SetSessions(s) ==
    /\ srtp_context' = s["srtp_context"]
    /\ rtp_session' = s["rtp_session"]
    /\ zrtp_context' = s["zrtp_context"]
    /\ dtls_context' = s["dtls_context"]
    /\ ticker' = s["ticker"]

\* The working state of a teardown: the sessions structure it works on, the
\* release counts, the log, and what media_stream_free read from
\* owns_sessions.
Teardown(s, rel, log, go) == [s |-> s, rel |-> rel, log |-> log, go |-> go]

\* The slip of leaving the handle in place once its object is destroyed.
uninit_field_dangling(f, st) ==
    IF st.s[f] # NULL
    THEN [st EXCEPT !.rel[f] = @ + 1, !.log = Append(@, <<"destroy", f>>)]
    ELSE st

\* One `if (sessions->f) { destroy(sessions->f); sessions->f = NULL; }` of
\* ms_media_stream_sessions_uninit.
uninit_field(f, st) ==
    IF st.s[f] # NULL
    THEN [st EXCEPT !.s[f] = NULL, !.rel[f] = @ + 1, !.log = Append(@, <<"destroy", f>>)]
    ELSE st

\* ms_media_stream_sessions_uninit
ms_media_stream_sessions_uninit(st) ==
    uninit_field("ticker",
      uninit_field("dtls_context",
        uninit_field("zrtp_context",
          uninit_field("rtp_session",
            uninit_field("srtp_context", st)))))

\* The statements of media_stream_free, numbered.
LastFreeStep == 13

\* The slip of releasing the sessions whether or not the stream owns them.
free_owns_test_skipped(owns) == TRUE

\* The test `if (stream->owns_sessions)` of media_stream_free.
free_owns_test(owns) == owns

\* The slip of destroying the event queue before it is unregistered from the
\* RTP session.
free_step_queue_first(k, st, owns) ==
    CASE k = 1 -> [st EXCEPT !.log = Append(@, <<"remove_tmmbr_handler", "">>)]
      [] k = 2 -> IF st.s["zrtp_context"] # NULL
                  THEN [st EXCEPT !.log = Append(@, <<"clear_backpointer", "zrtp_context">>)]
                  ELSE st
      [] k = 3 -> IF st.s["dtls_context"] # NULL
                  THEN [st EXCEPT !.log = Append(@, <<"clear_backpointer", "dtls_context">>)]
                  ELSE st
      [] k = 5 -> IF st.s["rtp_session"] # NULL
                  THEN [st EXCEPT !.log = Append(@, <<"unregister_event_queue", "rtp_session">>)]
                  ELSE st
      [] k = 4 -> [st EXCEPT !.log = Append(@, <<"destroy", "evq">>)]
      [] k = 6 -> [st EXCEPT !.log = Append(@, <<"destroy", "evd">>)]
      [] k = 7 -> [st EXCEPT !.go = free_owns_test(owns)]
      [] k \in 8..12 -> IF st.go THEN uninit_field(SessionFields[k - 7], st) ELSE st
      [] k = 13 ->
            [st EXCEPT !.log = @
                \o (IF rc # NULL THEN <<<<"destroy", "rc">>>> ELSE <<>>)
                \o (IF rtpsend # NULL THEN <<<<"destroy", "rtpsend">>>> ELSE <<>>)
                \o (IF encoder # NULL THEN <<<<"destroy", "encoder">>>> ELSE <<>>)
                \o (IF qi # NULL THEN <<<<"destroy", "qi">>>> ELSE <<>>)
                \o (IF video_quality_controller # NULL
                    THEN <<<<"destroy", "video_quality_controller">>>> ELSE <<>>)]

\* Statement k of media_stream_free on the working state st; `owns` is
\* stream->owns_sessions as the statement finds it.
free_step(k, st, owns) ==
    CASE k = 1 -> [st EXCEPT !.log = Append(@, <<"remove_tmmbr_handler", "">>)]
      [] k = 2 -> IF st.s["zrtp_context"] # NULL
                  THEN [st EXCEPT !.log = Append(@, <<"clear_backpointer", "zrtp_context">>)]
                  ELSE st
      [] k = 3 -> IF st.s["dtls_context"] # NULL
                  THEN [st EXCEPT !.log = Append(@, <<"clear_backpointer", "dtls_context">>)]
                  ELSE st
      [] k = 4 -> IF st.s["rtp_session"] # NULL
                  THEN [st EXCEPT !.log = Append(@, <<"unregister_event_queue", "rtp_session">>)]
                  ELSE st
      [] k = 5 -> [st EXCEPT !.log = Append(@, <<"destroy", "evq">>)]
      [] k = 6 -> [st EXCEPT !.log = Append(@, <<"destroy", "evd">>)]
      [] k = 7 -> [st EXCEPT !.go = free_owns_test(owns)]
      [] k \in 8..12 -> IF st.go THEN uninit_field(SessionFields[k - 7], st) ELSE st
      [] k = 13 ->
            [st EXCEPT !.log = @
                \o (IF rc # NULL THEN <<<<"destroy", "rc">>>> ELSE <<>>)
                \o (IF rtpsend # NULL THEN <<<<"destroy", "rtpsend">>>> ELSE <<>>)
                \o (IF encoder # NULL THEN <<<<"destroy", "encoder">>>> ELSE <<>>)
                \o (IF qi # NULL THEN <<<<"destroy", "qi">>>> ELSE <<>>)
                \o (IF video_quality_controller # NULL
                    THEN <<<<"destroy", "video_quality_controller">>>> ELSE <<>>)]

\* Statements k..LastFreeStep of media_stream_free, run without interruption.
RECURSIVE free_from(_, _, _)
free_from(k, st, owns) ==
    IF k > LastFreeStep THEN st ELSE free_from(k + 1, free_step(k, st, owns), owns)

\* No release has happened.
NothingReleased == [f \in SessionFieldSet |-> 0]

\* The slip of copying the handles out while staying their owner.
reclaimed_owns_sessions_kept(owns) == owns

\* What media_stream_reclaim_sessions leaves in owns_sessions.
reclaimed_owns_sessions(owns) == FALSE

\* media_stream_reclaim_sessions, run without interruption.
media_stream_reclaim_sessions ==
    /\ ~stream_freed /\ free_pc = 0
    /\ caller' = sessions
    /\ owns_sessions' = reclaimed_owns_sessions(owns_sessions)
    /\ ret' = [op |-> "reclaim_sessions"]
    /\ UNCHANGED <<rtp_session, ticker, released, stream_freed, free_pc, free_go,
                   reclaim_pc, reclaim_left, free_log>>
    /\ UNCHANGED secVars

\* media_stream_free, run without interruption.
media_stream_free ==
    /\ ~stream_freed /\ free_pc = 0
    /\ LET st == free_from(1, Teardown(sessions, released, <<>>, FALSE), owns_sessions)
       IN  /\ SetSessions(st.s)
           /\ released' = st.rel
           /\ free_log' = st.log
           /\ free_go' = st.go
    /\ stream_freed' = TRUE
    /\ ret' = [op |-> "free"]
    /\ UNCHANGED <<owns_sessions, caller, free_pc, reclaim_pc, reclaim_left>>
    /\ UNCHANGED <<dtls_mtu, stun_allowed, ice_check_list, bundle_role, rtpsend,
                   stun_enabled, stun_forced>>

\* The caller, once the stream is gone, releases the sessions it holds with
\* ms_media_stream_sessions_uninit.
caller_sessions_uninit ==
    /\ stream_freed
    /\ LET st == ms_media_stream_sessions_uninit(Teardown(caller, released, <<>>, FALSE))
       IN  /\ caller' = st.s
           /\ released' = st.rel
           /\ ret' = [op |-> "caller_uninit", log |-> st.log]
    /\ UNCHANGED <<owns_sessions, rtp_session, ticker, stream_freed, free_pc, free_go,
                   reclaim_pc, reclaim_left, free_log>>
    /\ UNCHANGED secVars

\* media_stream_start_ticker
media_stream_start_ticker ==
    /\ ~stream_freed /\ free_pc = 0
    /\ ticker' = IF ticker # NULL THEN ticker ELSE "ticker"
    /\ ret' = [op |-> "start_ticker", created |-> (ticker = NULL)]
    /\ UNCHANGED <<owns_sessions, rtp_session, caller, released, stream_freed, free_pc,
                   free_go, reclaim_pc, reclaim_left, free_log>>
    /\ UNCHANGED secVars

\* media_stream_reclaim_sessions is entered by a thread of its own.
reclaim_begin ==
    /\ reclaim_pc = "idle" /\ ~stream_freed
    /\ reclaim_pc' = "memcpy"
    /\ reclaim_left' = SessionFieldSet
    /\ ret' = [op |-> "reclaim_begin"]
    /\ UNCHANGED <<owns_sessions, rtp_session, ticker, caller, released, stream_freed,
                   free_pc, free_go, free_log>>
    /\ UNCHANGED secVars

\* The memcpy of media_stream_reclaim_sessions copies one more field; it is
\* not synchronized with anything, so the fields go in any order.
reclaim_memcpy(f) ==
    /\ reclaim_pc = "memcpy" /\ f \in reclaim_left
    /\ caller' = [caller EXCEPT ![f] = sessions[f]]
    /\ reclaim_left' = reclaim_left \ {f}
    /\ ret' = [op |-> "reclaim_memcpy", field |-> f]
    /\ UNCHANGED <<owns_sessions, rtp_session, ticker, released, stream_freed, free_pc,
                   free_go, reclaim_pc, free_log>>
    /\ UNCHANGED secVars

\* The last statement of media_stream_reclaim_sessions.
reclaim_disown ==
    /\ reclaim_pc = "memcpy" /\ reclaim_left = {}
    /\ owns_sessions' = reclaimed_owns_sessions(owns_sessions)
    /\ reclaim_pc' = "done"
    /\ ret' = [op |-> "reclaim_disown"]
    /\ UNCHANGED <<rtp_session, ticker, caller, released, stream_freed, free_pc, free_go,
                   reclaim_left, free_log>>
    /\ UNCHANGED secVars

\* media_stream_free is entered by a thread of its own.
free_begin ==
    /\ free_pc = 0 /\ ~stream_freed
    /\ free_pc' = 1
    /\ ret' = [op |-> "free_begin"]
    /\ UNCHANGED <<owns_sessions, rtp_session, ticker, caller, released, stream_freed,
                   free_go, reclaim_pc, reclaim_left, free_log>>
    /\ UNCHANGED secVars

\* The thread in media_stream_free runs its next statement.
free_next_statement ==
    /\ free_pc \in 1..LastFreeStep
    /\ LET st == free_step(free_pc, Teardown(sessions, released, free_log, free_go),
                           owns_sessions)
       IN  /\ SetSessions(st.s)
           /\ released' = st.rel
           /\ free_log' = st.log
           /\ free_go' = st.go
    /\ free_pc' = free_pc + 1
    /\ stream_freed' = (free_pc = LastFreeStep)
    /\ ret' = [op |-> "free_statement", k |-> free_pc]
    /\ UNCHANGED <<owns_sessions, caller, reclaim_pc, reclaim_left>>
    /\ UNCHANGED <<dtls_mtu, stun_allowed, ice_check_list, bundle_role, rtpsend,
                   stun_enabled, stun_forced>>

\* Whether media_stream_tmmbr_received is connected to the dispatcher for
\* RTCP_RTPFB sub-packets: media_stream_init connects it, the first
\* statement of media_stream_free disconnects it.
tmmbr_handler_connected ==
    \A i \in 1..Len(free_log) : free_log[i][1] # "remove_tmmbr_handler"

\* The dispatcher hands an RTPFB sub-packet of a received RTCP packet to the
\* handler connected for it; media_stream_free may have been entered.
rtpfb_dispatched(fb_type, tmmbr_mxtbr, enc_ok) ==
    /\ ~stream_freed /\ tmmbr_handler_connected
    /\ media_stream_tmmbr_received(fb_type, tmmbr_mxtbr, enc_ok)
    /\ rtpfb_type' = fb_type

\* No RTPFB sub-packet has been dispatched.
HandlerIdle == rtpfb_type = NULL

\* The RTPFB feedback types explored.
RtpfbTypes == {"RTCP_RTPFB_TMMBR", "RTCP_RTPFB_NACK", "RTCP_RTPFB_TMMBN"}

\* The sessions of a stream nothing is done with.
OwnIdle ==
    /\ owns_sessions = TRUE
    /\ rtp_session = "rtp_session"
    /\ ticker = NULL
    /\ caller = NoSessions
    /\ released = NothingReleased
    /\ stream_freed = FALSE
    /\ free_pc = 0
    /\ free_go = FALSE
    /\ reclaim_pc = "idle"
    /\ reclaim_left = {}
    /\ free_log = <<>>

\* A stream after its construction: it owns the sessions it created, or it
\* was given sessions its caller keeps (media_stream_init copies them in);
\* the sessions may hold security contexts and a ticker.
OwnInit ==
    /\ owns_sessions \in BOOLEAN
    /\ rtp_session = "rtp_session"
    /\ ticker \in {NULL, "ticker"}
    /\ zrtp_context \in {NULL, "zrtp"}
    /\ dtls_context \in {NULL, "dtls"}
    /\ dtls_mtu = 0
    /\ srtp_context \in {NULL, "srtp"}
    /\ stun_allowed = TRUE
    /\ ice_check_list = NULL
    /\ bundle_role = "none"
    /\ rtpsend = NULL
    /\ stun_enabled = FALSE
    /\ stun_forced = FALSE
    /\ caller = IF owns_sessions THEN NoSessions ELSE sessions
    /\ released = NothingReleased
    /\ stream_freed = FALSE
    /\ free_pc = 0
    /\ free_go = FALSE
    /\ reclaim_pc = "idle"
    /\ reclaim_left = {}
    /\ free_log = <<>>

\* Reclaim and teardown called one after the other.
OwnNext ==
    /\ \/ media_stream_reclaim_sessions
       \/ media_stream_free
       \/ caller_sessions_uninit
       \/ media_stream_start_ticker
    /\ UNCHANGED <<cryptoVars, tmmbrVars, fecVars, liveVars, vtVars, prioVars, transportVars, primaryVars, handlerVars>>

\* RTPFB sub-packets are dispatched while media_stream_free runs.
HandlerNext ==
    \/ /\ \E fb_type \in RtpfbTypes, v \in {U64(0, 300000), U64(1, 0)}, enc_ok \in BOOLEAN :
              rtpfb_dispatched(fb_type, v, enc_ok)
       /\ UNCHANGED <<cryptoVars, secVars, fecVars, liveVars, ownVars, vtVars, prioVars, transportVars, primaryVars>>
    \/ /\ \/ free_begin
          \/ free_next_statement
       /\ UNCHANGED <<cryptoVars, tmmbrVars, fecVars, liveVars, vtVars, prioVars, transportVars, primaryVars, handlerVars>>

\* The streams explored with the handler: of any type, with or without an
\* encoder, without ceiling, estimator, preset or configuration list.
HandlerStreams ==
    /\ TmmbrInit
    /\ max_target_bitrate = -1
    /\ duplicate_rate = 2
    /\ bw_estimator = [enabled |-> FALSE, instantiated |-> FALSE]
    /\ video_preset = NULL
    /\ vconf_list = NULL

\* Reclaim and teardown called by two threads.
RaceNext ==
    /\ \/ reclaim_begin
       \/ \E f \in SessionFieldSet : reclaim_memcpy(f)
       \/ reclaim_disown
       \/ free_begin
       \/ free_next_statement
    /\ UNCHANGED <<cryptoVars, tmmbrVars, fecVars, liveVars, vtVars, prioVars, transportVars, primaryVars, handlerVars>>

(***************************************************************************)
(* The VideoToolbox decoder (videotoolbox-decoder.cpp).  Three threads     *)
(* meet in it: the filter's thread calls feed, which may call              *)
(* destroyDecoder, createDecoder and decodeFrame; the decoding session     *)
(* calls outputCb from a thread of its own; fetch takes the decoded        *)
(* frames.  _mutex is modelled as a variable holding the name of the       *)
(* function that holds it, and every statement between a lock and an       *)
(* unlock is a step that the other threads can interleave with.            *)
(***************************************************************************)
MaxFrames == 2

\* An encoded frame as feed sees it: it carries new parameter sets or not,
\* it holds a key-frame part or not, and it is empty or not once the
\* parameter sets are extracted.
EncodedFrames == {f \in [ps : BOOLEAN, key : BOOLEAN, empty : BOOLEAN] : f.empty => ~f.key}

NoEncodedFrame == [ps |-> FALSE, key |-> FALSE, empty |-> TRUE]

NoCall == [frame |-> 0, status |-> "none"]

\* The entry of _queue for a frame: Frame() holds no data, Frame(pixbuf) does.
Frame(n, data) == [frame |-> n, data |-> data]

NoFrame == Frame(0, FALSE)

\* The accesses to _destroying made without _mutex, after function fn made one.
Access(fn, site) == IF vt_mutex = fn THEN vt_unguarded ELSE vt_unguarded \cup {site}

\* _psStore->extractAllPs followed by psGatheringCompleted.
extractAllPs(complete, f) == complete \/ f.ps

feed_return(result, submitted) ==
    /\ vt_pc' = "idle"
    /\ vt_in' = NoEncodedFrame
    /\ ret' = [op |-> "feed", result |-> result, submitted |-> submitted, frame |-> vt_in,
               frozen |-> vt_freeze]

\* feed, up to the test of the new parameter sets.
feed(f) ==
    /\ vt_pc = "idle"
    /\ vt_in' = f
    /\ vt_ps_complete' = extractAllPs(vt_ps_complete, f)
    /\ vt_need_key' = (vt_need_key /\ ~f.key)
    /\ IF f.ps /\ vt_session # NULL
       THEN vt_pc' = "destroy_lock" /\ vt_cont' = "feed"
       ELSE vt_pc' = "feed_body" /\ vt_cont' = vt_cont
    /\ ret' = [op |-> "feed_begin", frame |-> f]
    /\ UNCHANGED <<vt_session, vt_destroying, vt_freeze, vt_queue, vt_mutex, vt_pending, vt_cb,
                   vt_next, vt_delivered, vt_fetched, vt_unguarded>>

\* destroyDecoder: _mutex.lock()
destroy_lock ==
    /\ vt_pc = "destroy_lock"
    /\ vt_mutex = NULL
    /\ vt_mutex' = "destroyDecoder"
    /\ vt_pc' = "destroy_flag"
    /\ ret' = [op |-> "destroy_lock"]
    /\ UNCHANGED <<vt_session, vt_destroying, vt_freeze, vt_queue, vt_pending, vt_cb, vt_cont,
                   vt_in, vt_ps_complete, vt_next, vt_delivered, vt_fetched, vt_unguarded,
                   vt_need_key>>

\* destroyDecoder: _destroying = true; _mutex.unlock()
destroy_flag ==
    /\ vt_pc = "destroy_flag"
    /\ vt_destroying' = TRUE
    /\ vt_unguarded' = Access("destroyDecoder", "destroyDecoder sets")
    /\ vt_mutex' = NULL
    /\ vt_pc' = "destroy_wait"
    /\ ret' = [op |-> "destroy_flag"]
    /\ UNCHANGED <<vt_session, vt_freeze, vt_queue, vt_pending, vt_cb, vt_cont, vt_in,
                   vt_ps_complete, vt_next, vt_delivered, vt_fetched, vt_need_key>>

\* destroyDecoder: VTDecompressionSessionWaitForAsynchronousFrames returns once
\* the session has called back for every frame it was given.
destroy_wait ==
    /\ vt_pc = "destroy_wait"
    /\ vt_pending = {}
    /\ vt_cb = NoCall
    /\ vt_pc' = "destroy_release"
    /\ ret' = [op |-> "destroy_wait"]
    /\ UNCHANGED <<vt_session, vt_destroying, vt_freeze, vt_queue, vt_mutex, vt_pending, vt_cb,
                   vt_cont, vt_in, vt_ps_complete, vt_next, vt_delivered, vt_fetched,
                   vt_unguarded, vt_need_key>>

\* destroyDecoder: the session is invalidated and released, _session = nullptr.
destroy_release ==
    /\ vt_pc = "destroy_release"
    /\ vt_session' = NULL
    /\ vt_pc' = "destroy_clear"
    /\ ret' = [op |-> "destroy_release"]
    /\ UNCHANGED <<vt_destroying, vt_freeze, vt_queue, vt_mutex, vt_pending, vt_cb, vt_cont,
                   vt_in, vt_ps_complete, vt_next, vt_delivered, vt_fetched, vt_unguarded,
                   vt_need_key>>

\* destroyDecoder: _destroying = false, its last statement; then feed goes on,
\* or returns false when it was the handler of InvalidSessionError that called.
destroy_clear ==
    /\ vt_pc = "destroy_clear"
    /\ vt_destroying' = FALSE
    /\ vt_unguarded' = Access("destroyDecoder", "destroyDecoder clears")
    /\ IF vt_cont = "feed"
       THEN /\ vt_pc' = "feed_body"
            /\ vt_in' = vt_in
            /\ ret' = [op |-> "destroy_clear"]
       ELSE feed_return(FALSE, FALSE)
    /\ UNCHANGED <<vt_session, vt_freeze, vt_queue, vt_mutex, vt_pending, vt_cb, vt_cont,
                   vt_ps_complete, vt_next, vt_delivered, vt_fetched, vt_need_key>>

\* feed, from the test of the empty frame to the test of _session.
feed_body ==
    /\ vt_pc = "feed_body"
    /\ IF vt_in.empty THEN feed_return(TRUE, FALSE)
       ELSE IF ~vt_ps_complete THEN feed_return(FALSE, FALSE)
       ELSE /\ vt_pc' = IF vt_session = NULL THEN "create_lock" ELSE "feed_decode"
            /\ vt_in' = vt_in
            /\ ret' = [op |-> "feed_body"]
    /\ UNCHANGED <<vt_session, vt_destroying, vt_freeze, vt_queue, vt_mutex, vt_pending, vt_cb,
                   vt_cont, vt_ps_complete, vt_next, vt_delivered, vt_fetched, vt_unguarded,
                   vt_need_key>>

\* createDecoder: _mutex.lock()
create_lock ==
    /\ vt_pc = "create_lock"
    /\ vt_mutex = NULL
    /\ vt_mutex' = "createDecoder"
    /\ vt_pc' = "create_flag"
    /\ ret' = [op |-> "create_lock"]
    /\ UNCHANGED <<vt_session, vt_destroying, vt_freeze, vt_queue, vt_pending, vt_cb, vt_cont,
                   vt_in, vt_ps_complete, vt_next, vt_delivered, vt_fetched, vt_unguarded,
                   vt_need_key>>

\* createDecoder: if (_destroying) _destroying = false; _mutex.unlock()
create_flag ==
    /\ vt_pc = "create_flag"
    /\ vt_destroying' = FALSE
    /\ vt_unguarded' = Access("createDecoder", "createDecoder clears")
    /\ vt_mutex' = NULL
    /\ vt_pc' = "create_session"
    /\ ret' = [op |-> "create_flag"]
    /\ UNCHANGED <<vt_session, vt_freeze, vt_queue, vt_pending, vt_cb, vt_cont, vt_in,
                   vt_ps_complete, vt_next, vt_delivered, vt_fetched, vt_need_key>>

\* createDecoder: VTDecompressionSessionCreate gives a session, or createDecoder
\* throws a runtime_error and feed returns false.
create_session(status) ==
    /\ vt_pc = "create_session"
    /\ IF status = "noErr"
       THEN /\ vt_session' = "session"
            /\ vt_pc' = "feed_decode"
            /\ vt_in' = vt_in
            /\ ret' = [op |-> "create_session"]
       ELSE /\ vt_session' = vt_session
            /\ feed_return(FALSE, FALSE)
    /\ UNCHANGED <<vt_destroying, vt_freeze, vt_queue, vt_mutex, vt_pending, vt_cb, vt_cont,
                   vt_ps_complete, vt_next, vt_delivered, vt_fetched, vt_unguarded, vt_need_key>>

\* The slip of staying frozen whatever the frame holds.
feed_freeze_kept(freeze, f) == freeze

\* feed: the frozen decoder is released by a frame that holds a key-frame part.
feed_freeze(freeze, f) == freeze /\ ~f.key

\* feed, from the test of _freeze to its return; decodeFrame hands the frame to
\* the session, which takes it or answers with an error status.
feed_decode(status) ==
    /\ vt_pc = "feed_decode"
    /\ vt_freeze' = feed_freeze(vt_freeze, vt_in)
    /\ IF vt_freeze'
       THEN /\ feed_return(FALSE, FALSE)
            /\ UNCHANGED <<vt_pending, vt_next, vt_cont, vt_need_key>>
       ELSE IF status = "noErr"
       THEN /\ vt_next <= MaxFrames
            /\ vt_pending' = vt_pending \cup {vt_next}
            /\ vt_next' = vt_next + 1
            /\ feed_return(TRUE, TRUE)
            /\ UNCHANGED <<vt_cont, vt_need_key>>
       ELSE IF status = "kVTInvalidSessionErr"
       THEN /\ vt_pc' = "destroy_lock"
            /\ vt_cont' = "return"
            /\ vt_need_key' = TRUE
            /\ vt_in' = vt_in
            /\ ret' = [op |-> "InvalidSessionError"]
            /\ UNCHANGED <<vt_pending, vt_next>>
       ELSE /\ feed_return(FALSE, FALSE)
            /\ UNCHANGED <<vt_pending, vt_next, vt_cont, vt_need_key>>
    /\ UNCHANGED <<vt_session, vt_destroying, vt_queue, vt_mutex, vt_cb, vt_ps_complete,
                   vt_delivered, vt_fetched, vt_unguarded>>

\* The session calls outputCb for a frame it was given: the lock_guard.
outputCb_lock(n, status) ==
    /\ vt_cb = NoCall
    /\ n \in vt_pending
    /\ vt_mutex = NULL
    /\ vt_mutex' = "outputCb"
    /\ vt_cb' = [frame |-> n, status |-> status]
    /\ vt_pending' = vt_pending \ {n}
    /\ ret' = [op |-> "outputCb_lock"]
    /\ UNCHANGED <<vt_session, vt_destroying, vt_freeze, vt_queue, vt_pc, vt_cont, vt_in,
                   vt_ps_complete, vt_next, vt_delivered, vt_fetched, vt_unguarded, vt_need_key>>

outputCb_discards_never(destroying) == FALSE

\* outputCb: if (ctx->_destroying) return;
outputCb_discards(destroying) == destroying

\* outputCb, under the lock_guard: a late call is dropped, a failed decoding
\* pushes Frame(), a decoded picture pushes Frame(pixbuf).
outputCb ==
    /\ vt_cb # NoCall
    /\ vt_unguarded' = Access("outputCb", "outputCb reads")
    /\ IF outputCb_discards(vt_destroying)
       THEN UNCHANGED <<vt_queue, vt_delivered>>
       ELSE /\ vt_queue' = Append(vt_queue, Frame(vt_cb.frame, vt_cb.status = "noErr"))
            /\ vt_delivered' = Append(vt_delivered, Frame(vt_cb.frame, vt_cb.status = "noErr"))
    /\ vt_cb' = NoCall
    /\ vt_mutex' = NULL
    /\ ret' = [op |-> "outputCb", call |-> vt_cb, destroying |-> vt_destroying, pc |-> vt_pc]
    /\ UNCHANGED <<vt_session, vt_destroying, vt_freeze, vt_pending, vt_pc, vt_cont, vt_in,
                   vt_ps_complete, vt_next, vt_fetched, vt_need_key>>

fetch_status_of_queue(q) == IF q = <<>> THEN "NoFrameAvailable" ELSE "NoError"

\* fetch: the status it returns.
fetch_status(q) ==
    IF q = <<>> THEN "NoFrameAvailable"
    ELSE IF Head(q).data THEN "NoError" ELSE "DecodingFailure"

\* fetch: _queue.pop_front()
fetch_pop(q) == IF q = <<>> THEN q ELSE Tail(q)

\* fetch, the whole of it under its lock_guard.
fetch ==
    /\ vt_mutex = NULL
    /\ vt_queue' = fetch_pop(vt_queue)
    /\ vt_fetched' = IF vt_queue = <<>> THEN vt_fetched ELSE Append(vt_fetched, Head(vt_queue))
    /\ ret' = [op |-> "fetch", status |-> fetch_status(vt_queue), queue |-> vt_queue,
               frame |-> IF vt_queue # <<>> /\ Head(vt_queue).data THEN Head(vt_queue) ELSE NoFrame]
    /\ UNCHANGED <<vt_session, vt_destroying, vt_freeze, vt_mutex, vt_pending, vt_cb, vt_pc,
                   vt_cont, vt_in, vt_ps_complete, vt_next, vt_delivered,
                   vt_unguarded, vt_need_key>>

VtIdle ==
    /\ vt_session = NULL /\ vt_destroying = FALSE /\ vt_freeze = TRUE /\ vt_queue = <<>>
    /\ vt_mutex = NULL /\ vt_pending = {} /\ vt_cb = NoCall /\ vt_pc = "idle" /\ vt_cont = "feed"
    /\ vt_in = NoEncodedFrame /\ vt_ps_complete = FALSE /\ vt_next = 1 /\ vt_delivered = <<>>
    /\ vt_fetched = <<>> /\ vt_unguarded = {} /\ vt_need_key = FALSE

\* A decoder just constructed: no session, nothing queued; _freeze has the value
\* its declaration gives it.
VtInit ==
    /\ vt_session = NULL /\ vt_destroying = FALSE /\ vt_freeze \in BOOLEAN /\ vt_queue = <<>>
    /\ vt_mutex = NULL /\ vt_pending = {} /\ vt_cb = NoCall /\ vt_pc = "idle" /\ vt_cont = "feed"
    /\ vt_in = NoEncodedFrame /\ vt_ps_complete = FALSE /\ vt_next = 1 /\ vt_delivered = <<>>
    /\ vt_fetched = <<>> /\ vt_unguarded = {} /\ vt_need_key = FALSE

VtNext ==
    /\ \/ \E f \in EncodedFrames : feed(f)
       \/ destroy_lock
       \/ destroy_flag
       \/ destroy_wait
       \/ destroy_release
       \/ destroy_clear
       \/ feed_body
       \/ create_lock
       \/ create_flag
       \/ \E status \in {"noErr", "kVTVideoDecoderBadDataErr"} : create_session(status)
       \/ \E status \in {"noErr", "kVTInvalidSessionErr", "kVTVideoDecoderBadDataErr"} :
              feed_decode(status)
       \/ \E n \in 1..MaxFrames, status \in {"noErr", "kVTVideoDecoderBadDataErr"} :
              outputCb_lock(n, status)
       \/ outputCb
       \/ fetch
    /\ UNCHANGED <<cryptoVars, secVars, tmmbrVars, fecVars, liveVars, ownVars, prioVars, transportVars, primaryVars, handlerVars>>

(***************************************************************************)
(* The priority of the ticker (_ms_ticker_prio_from_env and                *)
(* __ms_get_default_prio).  A string is the sequence of its characters, so *)
(* that the comparison without regard to case is computed as strcasecmp    *)
(* computes it.                                                            *)
(***************************************************************************)
Targets == {"generic", "TARGET_OS_IPHONE", "MS2_WINDOWS_UNIVERSAL"}

\* An environment variable: unset, or set to a string.
Unset == [set |-> FALSE, value |-> <<>>]

Env(value) == [set |-> TRUE, value |-> value]

\* The values of the two variables explored.
PrioStrings ==
    {<<"N", "O", "R", "M", "A", "L">>, <<"n", "o", "r", "m", "a", "l">>,
     <<"N", "o", "r", "m", "a", "l">>,
     <<"H", "I", "G", "H">>, <<"h", "i", "g", "h">>, <<"h", "I", "g", "H">>,
     <<"R", "E", "A", "L", "T", "I", "M", "E">>, <<"r", "e", "a", "l", "t", "i", "m", "e">>,
     <<>>, <<"L", "O", "W">>, <<"H", "I", "G">>, <<"H", "I", "G", "H", "E", "R">>,
     <<"H", "I", "G", "H", " ">>}

PrioEnv == {Unset} \cup {Env(v) : v \in PrioStrings}

\* tolower, for the characters explored.
tolower(c) ==
    CASE c = "A" -> "a" [] c = "E" -> "e" [] c = "G" -> "g" [] c = "H" -> "h"
      [] c = "I" -> "i" [] c = "L" -> "l" [] c = "M" -> "m" [] c = "N" -> "n"
      [] c = "O" -> "o" [] c = "R" -> "r" [] c = "T" -> "t" [] c = "W" -> "w"
      [] OTHER -> c

\* strcasecmp: 0 iff the two strings are equal once every character is
\* lowered (the sign of a non-zero result is not used).
strcasecmp(a, b) ==
    IF Len(a) = Len(b) /\ \A i \in 1..Len(a) : tolower(a[i]) = tolower(b[i]) THEN 0 ELSE 1

\* The slip of comparing with strcmp.
_ms_ticker_prio_from_env_strcmp(penv) ==
    IF penv = <<"N", "O", "R", "M", "A", "L">> THEN [status |-> 0, prio |-> "MS_TICKER_PRIO_NORMAL"]
    ELSE IF penv = <<"H", "I", "G", "H">> THEN [status |-> 0, prio |-> "MS_TICKER_PRIO_HIGH"]
    ELSE IF penv = <<"R", "E", "A", "L", "T", "I", "M", "E">>
         THEN [status |-> 0, prio |-> "MS_TICKER_PRIO_REALTIME"]
    ELSE [status |-> -1, prio |-> "unset"]

\* _ms_ticker_prio_from_env: the status returned and what *prio holds.
_ms_ticker_prio_from_env(penv) ==
    IF strcasecmp(penv, <<"N", "O", "R", "M", "A", "L">>) = 0
    THEN [status |-> 0, prio |-> "MS_TICKER_PRIO_NORMAL"]
    ELSE IF strcasecmp(penv, <<"H", "I", "G", "H">>) = 0
    THEN [status |-> 0, prio |-> "MS_TICKER_PRIO_HIGH"]
    ELSE IF strcasecmp(penv, <<"R", "E", "A", "L", "T", "I", "M", "E">>) = 0
    THEN [status |-> 0, prio |-> "MS_TICKER_PRIO_REALTIME"]
    ELSE [status |-> -1, prio |-> "unset"]

\* penv in __ms_get_default_prio: getenv, which a build for Windows Universal
\* leaves out.
getenv(variable) == IF target = "MS2_WINDOWS_UNIVERSAL" THEN Unset ELSE variable

\* What __ms_get_default_prio returns.
default_prio(is_video) ==
    LET penv == getenv(IF is_video THEN MS_VIDEO_PRIO ELSE MS_AUDIO_PRIO)
    IN  IF penv.set /\ _ms_ticker_prio_from_env(penv.value).status = 0
        THEN _ms_ticker_prio_from_env(penv.value).prio
        ELSE IF is_video
        THEN (IF target = "TARGET_OS_IPHONE" THEN "MS_TICKER_PRIO_HIGH" ELSE "MS_TICKER_PRIO_NORMAL")
        ELSE "MS_TICKER_PRIO_HIGH"

__ms_get_default_prio(is_video) ==
    /\ ret' = [op |-> "__ms_get_default_prio", is_video |-> is_video,
               prio |-> default_prio(is_video)]
    /\ UNCHANGED prioVars

\* The host sets or unsets one of the two variables.
setenv(is_video, v) ==
    /\ IF is_video
       THEN MS_VIDEO_PRIO' = v /\ UNCHANGED MS_AUDIO_PRIO
       ELSE MS_AUDIO_PRIO' = v /\ UNCHANGED MS_VIDEO_PRIO
    /\ ret' = [op |-> "setenv", is_video |-> is_video]
    /\ UNCHANGED target

PrioIdle == MS_AUDIO_PRIO = Unset /\ MS_VIDEO_PRIO = Unset /\ target = "generic"

PrioInit == MS_AUDIO_PRIO = Unset /\ MS_VIDEO_PRIO = Unset /\ target \in Targets

PrioNext ==
    /\ \/ \E is_video \in BOOLEAN : __ms_get_default_prio(is_video)
       \/ \E is_video \in BOOLEAN, v \in PrioEnv : setenv(is_video, v)
    /\ UNCHANGED <<cryptoVars, secVars, tmmbrVars, fecVars, liveVars, ownVars, vtVars, transportVars, primaryVars, handlerVars>>

(***************************************************************************)
(* Construction of the transport: ms_create_duplex_rtp_session and         *)
(* media_stream_join_multicast_group                                       *)
(***************************************************************************)
MS_MINIMAL_MTU == 1500

\* The mtu values, local addresses and ports explored.
Mtus == {0, 1300, 9000}

LocalIps == {NULL, "192.168.0.2"}

RtpPorts == {-1, 7078}

\* What rtp_session_set_local_addr answers for each address it may be asked
\* to bind: 0, or -1 when the bind fails.
BindOutcomes == [{"192.168.0.2", "::0", "0.0.0.0"} -> {0, -1}]

\* What rtp_session_join_multicast_group of the transport may answer.
JoinStatuses == {0, -1, -2}

NoSession == [local_addr |-> NULL, rtp_port |-> 0, recv_buf_size |-> 0,
              rtcp_report_interval |-> 0]

MAX(a, b) == IF a > b THEN a ELSE b

\* The address the session ends up bound to (NULL: to none), as
\* ms_create_duplex_rtp_session tries them.
duplex_local_addr(local_ip, bind) ==
    IF local_ip # NULL
    THEN (IF bind[local_ip] = 0 THEN local_ip ELSE NULL)
    ELSE IF bind["::0"] < 0
         THEN (IF bind["0.0.0.0"] = 0 THEN "0.0.0.0" ELSE NULL)
         ELSE "::0"

\* What ms_create_duplex_rtp_session returns: the session, whatever the binds
\* answered.
duplex_result(local_ip, bind) == "rtpr"

ms_create_duplex_rtp_session(local_ip, loc_rtp_port, mtu, bind) ==
    /\ rtpr' = [local_addr |-> duplex_local_addr(local_ip, bind),
                rtp_port |-> loc_rtp_port,
                recv_buf_size |-> MAX(mtu, MS_MINIMAL_MTU),
                rtcp_report_interval |-> 2500]
    /\ ret' = [op |-> "ms_create_duplex_rtp_session", result |-> duplex_result(local_ip, bind),
               local_ip |-> local_ip]
    /\ UNCHANGED multicast_group

\* media_stream_join_multicast_group: the transport answers `status`.
media_stream_join_multicast_group(ip, status) ==
    /\ multicast_group' = IF status = 0 THEN ip ELSE multicast_group
    /\ ret' = [op |-> "media_stream_join_multicast_group", result |-> status,
               transport |-> status]
    /\ UNCHANGED rtpr

TransportIdle == rtpr = NoSession /\ multicast_group = NULL

TransportNext ==
    /\ \/ \E local_ip \in LocalIps, port \in RtpPorts, mtu \in Mtus, bind \in BindOutcomes :
              ms_create_duplex_rtp_session(local_ip, port, mtu, bind)
       \/ \E ip \in {"224.0.0.7", "ff02::7"}, status \in JoinStatuses :
              media_stream_join_multicast_group(ip, status)
    /\ UNCHANGED <<cryptoVars, secVars, tmmbrVars, fecVars, liveVars, ownVars, vtVars, prioVars, primaryVars, handlerVars>>

(***************************************************************************)
(* Specifications                                                          *)
(***************************************************************************)

InitCrypto == ret = NoOp /\ CryptoInit /\ SecIdle /\ TmmbrIdle /\ FecIdle /\ LiveIdle /\ OwnIdle /\ VtIdle /\ PrioIdle /\ TransportIdle /\ PrimaryIdle /\ HandlerIdle

SpecCrypto == InitCrypto /\ [][CryptoNext]_vars

InitSec == ret = NoOp /\ CryptoInit /\ SecInit /\ TmmbrIdle /\ FecIdle /\ LiveIdle /\ OwnIdle /\ VtIdle /\ PrioIdle /\ TransportIdle /\ PrimaryIdle /\ HandlerIdle

SpecSec == InitSec /\ [][SecNext]_vars

InitTmmbr == ret = NoOp /\ CryptoInit /\ SecIdle /\ TmmbrInit /\ FecIdle /\ LiveIdle /\ OwnIdle /\ VtIdle /\ PrioIdle /\ TransportIdle /\ PrimaryIdle /\ HandlerIdle

SpecTmmbr == InitTmmbr /\ [][TmmbrNext]_vars

InitFec == ret = NoOp /\ CryptoInit /\ SecIdle /\ TmmbrIdle /\ FecInit /\ LiveIdle /\ OwnIdle /\ VtIdle /\ PrioIdle /\ TransportIdle /\ PrimaryInit /\ HandlerIdle

SpecFec == InitFec /\ [][FecNext]_vars

InitLive == ret = NoOp /\ CryptoInit /\ SecIdle /\ TmmbrIdle /\ FecIdle /\ LiveInit /\ OwnIdle /\ VtIdle /\ PrioIdle /\ TransportIdle /\ PrimaryIdle /\ HandlerIdle

SpecLive == InitLive /\ [][LiveNext]_vars

InitQuery == ret = NoOp /\ CryptoInit /\ FecIdle /\ QueryInit /\ OwnIdle /\ VtIdle /\ PrioIdle /\ TransportIdle /\ PrimaryIdle /\ HandlerIdle

SpecQuery == InitQuery /\ [][QueryNext]_vars

InitOwn == ret = NoOp /\ CryptoInit /\ TmmbrIdle /\ FecIdle /\ LiveIdle /\ OwnInit /\ VtIdle /\ PrioIdle /\ TransportIdle /\ PrimaryIdle /\ HandlerIdle

SpecOwn == InitOwn /\ [][OwnNext]_vars

SpecRace == InitOwn /\ [][RaceNext]_vars

InitVt == ret = NoOp /\ CryptoInit /\ SecIdle /\ TmmbrIdle /\ FecIdle /\ LiveIdle /\ OwnIdle /\ VtInit /\ PrioIdle /\ TransportIdle /\ PrimaryIdle /\ HandlerIdle

SpecVt == InitVt /\ [][VtNext]_vars

InitPrio == ret = NoOp /\ CryptoInit /\ SecIdle /\ TmmbrIdle /\ FecIdle /\ LiveIdle /\ OwnIdle /\ VtIdle /\ PrioInit /\ TransportIdle /\ PrimaryIdle /\ HandlerIdle

SpecPrio == InitPrio /\ [][PrioNext]_vars

\* Teardown of a stream that may hold a FEC session (media_stream_handle_fec
\* has run on it or not).
InitTeardown == ret = NoOp /\ CryptoInit /\ TmmbrIdle /\ FecInit /\ LiveIdle /\ OwnInit /\ VtIdle /\ PrioIdle /\ TransportIdle /\ PrimaryIdle /\ HandlerIdle

SpecTeardown == InitTeardown /\ [][OwnNext]_vars

InitTransport == ret = NoOp /\ CryptoInit /\ SecIdle /\ TmmbrIdle /\ FecIdle /\ LiveIdle /\ OwnIdle /\ VtIdle /\ PrioIdle /\ TransportIdle /\ PrimaryIdle /\ HandlerIdle

SpecTransport == InitTransport /\ [][TransportNext]_vars

InitHandler == ret = NoOp /\ CryptoInit /\ HandlerStreams /\ FecIdle /\ LiveIdle /\ OwnInit /\ VtIdle /\ PrioIdle /\ TransportIdle /\ PrimaryIdle /\ HandlerIdle

SpecHandler == InitHandler /\ [][HandlerNext]_vars

InitInterval == ret = NoOp /\ CryptoInit /\ SecIdle /\ TmmbrIdle /\ FecIdle /\ LiveIdle /\ OwnIdle /\ VtIdle /\ PrioIdle /\ TransportIdle /\ PrimaryIdle /\ HandlerIdle

SpecInterval == InitInterval /\ [][IntervalNext]_vars

InitPace == ret = NoOp /\ CryptoInit /\ SecIdle /\ TmmbrIdle /\ FecIdle /\ LiveInit /\ OwnIdle /\ VtIdle /\ PrioIdle /\ TransportIdle /\ PrimaryIdle /\ HandlerIdle

SpecPace == InitPace /\ [][PaceNext]_vars

\* The tick of a stream with or without an ICE check list.
Init ==
    /\ ret = NoOp /\ CryptoInit /\ TmmbrIdle /\ FecIdle /\ LiveInit /\ OwnIdle /\ VtIdle /\ PrioIdle /\ TransportIdle /\ PrimaryIdle /\ HandlerIdle
    /\ \E cl \in {NULL, "cl"} :
          /\ ice_check_list = cl
          /\ zrtp_context = NULL /\ dtls_context = NULL /\ dtls_mtu = 0 /\ srtp_context = NULL
          /\ stun_allowed = TRUE /\ bundle_role = "none" /\ rtpsend = NULL
          /\ stun_enabled = FALSE /\ stun_forced = FALSE

Next == TickNext

Spec == Init /\ [][Next]_vars

(***************************************************************************)
(* Claims about the crypto-suite mapping (checked under SpecCrypto)        *)
(***************************************************************************)

\* The set of tokens of a params string (empty for a null pointer).
TokenSet(parameters) == {parameters.toks[i] : i \in 1..Len(parameters.toks)}

\* The (name, params) pairs the SDP security descriptor table lists as valid,
\* as the token sets allowed with each name.
TableValidTokens(name) ==
    CASE name = "AES_CM_128_HMAC_SHA1_80" ->
            {{}, {"UNENCRYPTED_SRTP"}, {"UNENCRYPTED_SRTCP"},
             {"UNENCRYPTED_SRTP", "UNENCRYPTED_SRTCP"}, {"UNAUTHENTICATED_SRTP"}}
      [] name = "AES_CM_128_HMAC_SHA1_32" -> {{}, {"UNAUTHENTICATED_SRTP"}}
      [] name \in {"AES_256_CM_HMAC_SHA1_32", "AES_256_CM_HMAC_SHA1_80", "AES_CM_256_HMAC_SHA1_80",
                   "AEAD_AES_128_GCM", "AEAD_AES_256_GCM"} -> {{}}
      [] OTHER -> {}

\* The names that take no params at all.
NoParamsNames ==
    {"AES_256_CM_HMAC_SHA1_32", "AES_256_CM_HMAC_SHA1_80", "AES_CM_256_HMAC_SHA1_80",
     "AEAD_AES_128_GCM", "AEAD_AES_256_GCM"}

\* The tokens ms_crypto_suite_build_from_name_params looks for.
KnownTokens == {"UNENCRYPTED_SRTP", "UNENCRYPTED_SRTCP", "UNAUTHENTICATED_SRTP"}

\* C8: for every (name, params) pair the table lists as valid,
\* build_from_name_params followed by to_name_params returns 0 and yields the
\* same name and the same set of params tokens, and no params when none was
\* given.
C8_RoundTrip ==
    (ret.op = "crypto_round_trip" /\ TokenSet(cs_desc.params) \in TableValidTokens(cs_desc.name))
        => /\ cs_out.status = 0
           /\ cs_out.name = cs_desc.name
           /\ TokenSet(cs_out.params) = TokenSet(cs_desc.params)
           /\ (cs_desc.params.null => cs_out.params.null)

\* C8 witness: the descriptor with both UNENCRYPTED tokens went round.
C8_Witness ==
    /\ ret.op = "crypto_round_trip"
    /\ cs_desc.name = "AES_CM_128_HMAC_SHA1_80"
    /\ cs_desc.params = ParamString(<<"UNENCRYPTED_SRTCP", "UNENCRYPTED_SRTP">>)
    /\ cs_suite = "MS_AES_128_SHA1_80_NO_CIPHER"
    /\ cs_out.status = 0

C2_Limit(c, ceiling) ==
    LET m == IF c.hi > 0 \/ c.lo > INT_MAX THEN INT_MAX ELSE c.lo
    IN  IF ceiling > 0 /\ m > ceiling THEN ceiling ELSE m

C3_NoEffect ==
    /\ ret'.result = -1
    /\ ~ret'.enc_called /\ ~ret'.conf_pushed /\ ~ret'.vqc_fed
    /\ UNCHANGED <<target_bitrate, upload_bw, enc_bitrate, required_bitrate,
                   video_quality_controller, vqc_ceiling>>

\* C3: a TMMBR whose limit, after correction and capping, equals the last
\* applied limit (the session's target upload bandwidth) changes nothing; so
\* the second of two identical consecutive TMMBRs changes nothing, and when
\* the first one was applied on a stream that is not video the encoder was
\* called for the first and is not called for the second.
C3_Idempotent ==
    [][ret'.op = "process_tmmbr" =>
        /\ (encoder # NULL /\ C2_Limit(tmmbr_corrected(ret'.v), max_target_bitrate) = upload_bw)
                => C3_NoEffect
        /\ (ret.op = "process_tmmbr" /\ ret.v = ret'.v) => C3_NoEffect
        /\ (ret.op = "process_tmmbr" /\ ret.v = ret'.v /\ ret.result # -1 /\ type # "MSVideo")
                => ret.enc_called /\ ~ret'.enc_called]_vars

\* C3 witness: the TMMBR of 500000 under a ceiling of 300000 came again after
\* the encoder had been set to 300000, and was skipped.
C3_Witness ==
    /\ ret.op = "process_tmmbr"
    /\ ret.v = U64(0, 500000)
    /\ ret.result = -1
    /\ encoder # NULL
    /\ max_target_bitrate = 300000
    /\ upload_bw = 300000
    /\ enc_bitrate = 300000

(***************************************************************************)
(* Claims about FlexFEC (checked under SpecFec)                            *)
(***************************************************************************)

\* C6: media_stream_handle_fec on a stream that already owns a FEC session
\* leaves the FEC state untouched: no new secondary session, no reset of the
\* FEC session's fec_stream, no second binding into the bundle, no new FEC
\* stream object replacing ms->fec_stream.
C6_FecSetupIdempotent ==
    [][(ret'.op = "handle_fec" /\ fec_session # NULL) =>
        UNCHANGED <<fec_session, fec_session_fec_stream, bundle_fec_bindings,
                    ms_fec_stream, fec_streams_created>>]_vars

\* Whether an fmtp string carries the parameter.
C7_Has(fmtp, name) == \E i \in 1..Len(fmtp.entries) : fmtp.entries[i].name = name

\* C7: the parameters extracted are {100000, 10, 0} when the payload type has
\* no fmtp and {50000, 4, 2} for "repair-window=50000;L=4;D=2", and each
\* parameter that is absent gets its own default whether or not the other two
\* are present, while those present keep their values ("L=4" alone gives
\* {100000, 4, 0}, "D=7" alone {100000, 10, 7}, "D=2;repair-window=50000"
\* gives {50000, 10, 2}).
C7_FecParams ==
    (ret.op = "handle_fec" /\ ret.setup) =>
        LET f == ret.profile.recv_fmtp
        IN  /\ f.null => fec_params = [repair_window |-> 100000, L |-> 10, D |-> 0]
            /\ f = Fmtp(<<Param("repair-window", <<"5", "0", "0", "0", "0">>),
                          Param("L", <<"4">>), Param("D", <<"2">>)>>)
                    => fec_params = [repair_window |-> 50000, L |-> 4, D |-> 2]
            /\ ~C7_Has(f, "repair-window") => fec_params.repair_window = 100000
            /\ ~C7_Has(f, "L") => fec_params.L = 10
            /\ ~C7_Has(f, "D") => fec_params.D = 0
            /\ f = Fmtp(<<Param("L", <<"4">>)>>)
                    => fec_params = [repair_window |-> 100000, L |-> 4, D |-> 0]
            /\ f = Fmtp(<<Param("D", <<"7">>)>>)
                    => fec_params = [repair_window |-> 100000, L |-> 10, D |-> 7]
            /\ f = Fmtp(<<Param("D", <<"2">>), Param("repair-window", <<"5", "0", "0", "0", "0">>)>>)
                    => fec_params = [repair_window |-> 50000, L |-> 10, D |-> 2]

\* C7 witness: FEC was set up from an fmtp that gives L only.
C7_Witness ==
    /\ ret.op = "handle_fec"
    /\ ret.setup
    /\ ret.profile.recv_fmtp = Fmtp(<<Param("L", <<"4">>)>>)
    /\ fec_params = [repair_window |-> 100000, L |-> 4, D |-> 0]

(***************************************************************************)
(* Liveness (SpecLive)                                                     *)
(***************************************************************************)

\* C4: media_stream_alive(timeout) on a stream that has not reached the
\* Started state returns TRUE whatever the timeout (0 included) and changes
\* neither last_packet_count nor last_packet_time.
C4_AliveBeforeStart ==
    [][(ret'.op = "alive" /\ state # "MSStreamStarted")
       => (ret'.result = TRUE /\ UNCHANGED <<last_packet_count, last_packet_time>>)]_vars

\* C4 happens: alive(0) answered TRUE on a stream not started although the
\* session has received packets and time has passed.
C4_Witness ==
    /\ ret.op = "alive" /\ ret.timeout = 0 /\ ret.result = TRUE
    /\ state = "MSStreamInitialized" /\ recv > 0 /\ now > 1
    /\ last_packet_count = 0

\* The stream is started, media_stream_alive(timeout) has just answered, at
\* second start_time + timeout + 1.
AliveAtDeadline ==
    /\ ret.op = "alive" /\ state = "MSStreamStarted"
    /\ now = start_time + ret.timeout + 1

\* The one packet of the session arrived at second start_time + timeout - 1.
OnePacketBeforeDeadline(timeout) ==
    recv = 1 /\ last_arrival = start_time + timeout - 1

\* C5 as stated: started at t0, with no packet received alive(timeout) at
\* t0+timeout+1 is FALSE; with one packet arrived at t0+timeout-1,
\* alive(timeout) at t0+timeout+1 is TRUE (read for timeout >= 0).
C5_AliveAsStated ==
    /\ (AliveAtDeadline /\ recv = 0 /\ ~rtcp_seen) => ret.result = FALSE
    /\ (AliveAtDeadline /\ ret.timeout >= 0 /\ OnePacketBeforeDeadline(ret.timeout))
         => ret.result = TRUE

\* C5, amended: started at t0, with no packet received alive(timeout) at
\* t0+timeout+1 is FALSE; with one packet arrived at t0+timeout-1,
\* alive(timeout) at t0+timeout+1 is TRUE when timeout >= 2, or when
\* timeout >= 0 and no call of alive has sampled the packet count since the
\* arrival; and a call on a started stream answers FALSE exactly when
\* now - last_packet_time, as that call leaves it, exceeds timeout.
C5_Alive ==
    [][(ret'.op = "alive" /\ state = "MSStreamStarted") =>
         /\ (now = start_time + ret'.timeout + 1 /\ recv = 0 /\ ~rtcp_seen)
              => ret'.result = FALSE
         /\ (/\ now = start_time + ret'.timeout + 1
             /\ OnePacketBeforeDeadline(ret'.timeout)
             /\ (ret'.timeout >= 2 \/ (ret'.timeout >= 0 /\ ~polled_since_arrival)))
              => ret'.result = TRUE
         /\ (ret'.result = FALSE) <=> (now - last_packet_time' > ret'.timeout)]_vars

\* C5 happens: one packet arrived at t0+timeout-1, alive sampled it at once,
\* and alive(timeout) at t0+timeout+1 answered TRUE, with timeout = 2.
C5_Witness ==
    /\ AliveAtDeadline /\ OnePacketBeforeDeadline(ret.timeout)
    /\ ret.timeout = 2 /\ ret.result = TRUE
    /\ last_packet_time = last_arrival

(***************************************************************************)
(* The tick (Spec)                                                         *)
(***************************************************************************)

\* A compound RTCP packet made of one well-formed RR and a garbage tail.
RRThenGarbage == <<Sub("RR", TRUE), Sub("garbage", FALSE)>>

\* What the trace holds.
Done == {trace[k] : k \in 1..Len(trace)}

\* C10: when a tick takes from the queue an RTCP packet made of one
\* well-formed RR followed by a garbage sub-packet, the liveness timestamp is
\* set to the tick's time, the RR goes to the bitrate controller (exactly when
\* it is enabled and present), to the quality indicator (exactly when
\* present) and to the stream-type hook, nothing is done with the garbage
\* tail, and the event and every later event of the queue are handled and
\* destroyed in the same tick.
C10_GarbageTailDropped ==
    ret.op = "iterate" =>
      \A i \in 1..Len(ret.drained) :
        (ret.drained[i].type = "ORTP_EVENT_RTCP_PACKET_RECEIVED" /\ ret.drained[i].packet = RRThenGarbage)
        => /\ last_packet_time = ret.curtime
           /\ Did(i, "last_packet_time", 0) \in Done
           /\ (Did(i, "rc_process_rtcp", 1) \in Done) <=> (rc_enable /\ rc # NULL)
           /\ (Did(i, "qi_update_from_feedback", 1) \in Done) <=> (qi # NULL)
           /\ Did(i, "process_rtcp_hook", 1) \in Done
           /\ \A d \in Done : d.ev = i => d.sub \in {0, 1}
           /\ \A k \in i..Len(ret.drained) :
                /\ Did(k, "ortp_event_destroy", 0) \in Done
                /\ ret.drained[k].type = "ORTP_EVENT_RTCP_PACKET_RECEIVED"
                     => \E j \in 0..Len(ret.drained[k].packet) : Did(k, "process_rtcp_hook", j) \in Done
           /\ evq = <<>>

\* C10 happens: a tick drained an RR with a garbage tail followed by another
\* RTCP packet, with the bitrate controller enabled and a quality indicator.
C10_Witness ==
    /\ ret.op = "iterate" /\ Len(ret.drained) = 2
    /\ ret.drained[1].type = "ORTP_EVENT_RTCP_PACKET_RECEIVED"
    /\ ret.drained[1].packet = RRThenGarbage
    /\ ret.drained[2].type = "ORTP_EVENT_RTCP_PACKET_RECEIVED"
    /\ rc_enable /\ rc # NULL /\ qi # NULL
    /\ Did(1, "process_rtcp_hook", 1) \in Done
    /\ Did(2, "process_rtcp_hook", 1) \in Done

\* How many times the trace holds d.
Times(d) == Cardinality({k \in 1..Len(trace) : trace[k] = d})

\* What marks the handling of an event of this kind ("": nothing but the
\* release, the event is ignored).
HandlingOf(ev) ==
    IF ev.type = "ORTP_EVENT_RTCP_PACKET_RECEIVED" THEN "last_packet_time"
    ELSE IF ev.type = "ORTP_EVENT_RTCP_PACKET_EMITTED" THEN "log_jitter_stats"
    ELSE IF ev.type = "ORTP_EVENT_STUN_PACKET_RECEIVED"
         THEN (IF ice_check_list # NULL THEN "ice_handle_stun_packet" ELSE "")
    ELSE IF ev.type \in {"ORTP_EVENT_ZRTP_ENCRYPTION_CHANGED", "ORTP_EVENT_DTLS_ENCRYPTION_CHANGED"}
         THEN "log_secured"
    ELSE ""

\* C11: a call of media_stream_iterate empties the queue; the events it took
\* are handled in arrival order (what is done with the i-th event is what
\* its kind calls for, and comes before anything done with the (i+1)-th), each
\* is released exactly once, after its handling; an event of an unrecognized
\* kind or a STUN event with no ICE check list is released and nothing else
\* is done with it; nothing stays in the queue for a later tick.
C11_DrainFifo ==
    ret.op = "iterate" =>
      /\ evq = <<>>
      /\ \A k \in 1..Len(trace) : trace[k].ev \in 0..Len(ret.drained)
      /\ \A k \in 1..(Len(trace) - 1) : trace[k].ev <= trace[k + 1].ev
      /\ \A i \in 1..Len(ret.drained) :
           /\ Times(Did(i, "ortp_event_destroy", 0)) = 1
           /\ \A k \in 1..Len(trace) :
                (trace[k] = Did(i, "ortp_event_destroy", 0) /\ k < Len(trace))
                  => trace[k + 1].ev = i + 1
           /\ IF HandlingOf(ret.drained[i]) = ""
              THEN \A d \in Done : d.ev = i => d.step = "ortp_event_destroy"
              ELSE Times(Did(i, HandlingOf(ret.drained[i]), 0)) = 1

\* C11 happens: a tick took an event of an unrecognized kind and then a STUN
\* event, with no ICE check list, followed by nothing else: both were
\* released, in that order, and nothing else was done with them.
C11_Witness ==
    /\ ret.op = "iterate"
    /\ ice_check_list = NULL
    /\ Len(ret.drained) = 2
    /\ ret.drained[1].type = "ORTP_EVENT_TELEPHONE_EVENT"
    /\ ret.drained[2].type = "ORTP_EVENT_STUN_PACKET_RECEIVED"
    /\ SubSeq(trace, Len(trace) - 1, Len(trace))
         = <<Did(1, "ortp_event_destroy", 0), Did(2, "ortp_event_destroy", 0)>>
    /\ evq = <<>>

(***************************************************************************)
(* The security queries (SpecQuery)                                        *)
(***************************************************************************)

\* The value a query gives when it has nothing to report.
UnavailableValue(op) ==
    IF op = "secured" THEN FALSE
    ELSE IF op = "get_srtp_key_source" THEN "MSSrtpKeySourceUnavailable"
    ELSE "MS_CRYPTO_SUITE_INVALID"

\* C12: on a stream that is not Started, media_stream_secured returns FALSE,
\* media_stream_get_srtp_key_source MSSrtpKeySourceUnavailable and
\* media_stream_get_srtp_crypto_suite MS_CRYPTO_SUITE_INVALID, whatever the
\* direction, the inner flag and the security contexts; and so they do on a
\* stream of unknown media type, Started or not.
C12_QueriesOutsideStarted ==
    (/\ ret.op \in {"secured", "get_srtp_key_source", "get_srtp_crypto_suite"}
     /\ (state # "MSStreamStarted" \/ type = "MSUnknownMedia"))
    => ret.result = UnavailableValue(ret.op)

\* C12 happens: the key source was asked of an audio stream that has a DTLS
\* context but is not started.
C12_Witness ==
    /\ ret.op = "get_srtp_key_source"
    /\ ret.result = "MSSrtpKeySourceUnavailable"
    /\ state = "MSStreamInitialized"
    /\ type = "MSAudio"
    /\ dtls_context # NULL

(***************************************************************************)
(* Ownership and teardown (SpecOwn, SpecRace)                              *)
(***************************************************************************)

\* C13: media_stream_free on a stream that no longer owns its sessions
\* (media_stream_reclaim_sessions has copied them out) releases none of the
\* RTP session, SRTP, ZRTP and DTLS contexts and ticker, and leaves the
\* caller's handles as they are; every handle the caller holds names a
\* sub-resource not released, and no sub-resource is ever released twice,
\* whether by the stream or by the caller.
C13_ReclaimedNotReleased ==
    /\ (ret.op = "free" /\ ~owns_sessions)
         => /\ released = NothingReleased
            /\ \A k \in 1..Len(free_log) : free_log[k][2] \notin SessionFieldSet
                                           \/ free_log[k][1] # "destroy"
    /\ \A f \in SessionFieldSet :
         /\ released[f] <= 1
         /\ caller[f] # NULL => released[f] = 0

\* C13 happens: the sessions were reclaimed, the stream freed, and then the
\* caller released the RTP session and the ZRTP context it held, once.
C13_Witness ==
    /\ ret.op = "caller_uninit"
    /\ ~owns_sessions /\ stream_freed
    /\ free_log # <<>>
    /\ released["rtp_session"] = 1 /\ released["zrtp_context"] = 1
    /\ caller = NoSessions

\* C14: with media_stream_reclaim_sessions and media_stream_free running on
\* two threads, no handle the caller was handed names a sub-resource the
\* teardown has released.
C14_ReclaimAtomic ==
    \A f \in SessionFieldSet : caller[f] # NULL => released[f] = 0

(***************************************************************************)
(* Claims about the VideoToolbox decoder (checked under SpecVt)            *)
(***************************************************************************)

\* A call of outputCb that returns while destroyDecoder has set _destroying and
\* has not released the session yet changes neither the queue nor the decoder.
LateCallbackDiscarded ==
    [][(vt_cb # NoCall /\ vt_cb' = NoCall /\ vt_pc = "destroy_wait")
         => UNCHANGED <<vt_queue, vt_delivered, vt_session, vt_destroying, vt_freeze,
                        vt_pending, vt_ps_complete, vt_pc, vt_in, vt_next>>]_vars

\* C15 as stated: a callback that runs after destroyDecoder has set the
\* tearing-down flag and before the session is destroyed pushes nothing and
\* touches no decoder state, and the flag is read and written only by a
\* thread that holds the mutex.
C15_FlagOnlyUnderMutex == LateCallbackDiscarded /\ [](vt_unguarded = {})

\* C15: a callback that runs after destroyDecoder has set the tearing-down
\* flag and before the session is destroyed pushes nothing and touches no
\* decoder state.  The flag is set, tested by the callback and cleared by
\* createDecoder under the mutex; the one access without the mutex is the
\* last statement of destroyDecoder, which clears the flag once the session
\* is released, when no callback is pending or in progress.
C15_LateCallbackDiscarded ==
    /\ LateCallbackDiscarded
    /\ [](/\ vt_unguarded \subseteq {"destroyDecoder clears"}
          /\ vt_pc = "destroy_clear" =>
                 vt_session = NULL /\ vt_pending = {} /\ vt_cb = NoCall /\ vt_destroying)

C15_Witness ==
    /\ ret.op = "outputCb" /\ ret.destroying /\ ret.pc = "destroy_wait"
    /\ vt_pc = "destroy_wait" /\ vt_session # NULL /\ vt_destroying
    /\ vt_queue # <<>>

\* C16: when the session answers a fed frame with kVTInvalidSessionErr, feed
\* tears the session down and returns false, a later feed creates a session
\* before it submits a frame, and no frame is submitted for decoding until a
\* frame that holds a key-frame part was fed.
C16_FrozenAfterInvalidSession ==
    [][/\ (vt_pc = "destroy_clear" /\ vt_cont = "return" /\ vt_pc' = "idle")
            => (ret'.op = "feed" /\ ~ret'.result /\ vt_session' = NULL /\ ~vt_destroying')
       /\ (vt_pc = "feed_decode" /\ vt_next' # vt_next)
            => (vt_session # NULL /\ ~vt_need_key)]_vars

\* C19: fetch returns NoFrameAvailable with a null frame iff the queue is
\* empty; otherwise it removes exactly the front entry and returns
\* DecodingFailure when that entry holds no data and NoError with the frame
\* when it does.  The entries are fetched in the order outputCb pushed them,
\* each at most once: the pushed entries are the fetched ones followed by the
\* queue.
C19_Fetch ==
    /\ [](vt_delivered = vt_fetched \o vt_queue)
    /\ [][(ret'.op = "fetch")
            => /\ (ret'.status = "NoFrameAvailable") <=> (vt_queue = <<>>)
               /\ vt_queue = <<>> => (ret'.frame = NoFrame /\ vt_queue' = vt_queue)
               /\ vt_queue # <<>> =>
                     /\ vt_queue' = Tail(vt_queue)
                     /\ vt_fetched' = Append(vt_fetched, Head(vt_queue))
                     /\ (ret'.status = "DecodingFailure") <=> ~Head(vt_queue).data
                     /\ (ret'.status = "NoError") <=> Head(vt_queue).data
                     /\ Head(vt_queue).data => ret'.frame = Head(vt_queue)
                     /\ ~Head(vt_queue).data => ret'.frame = NoFrame]_vars

C19_Witness ==
    /\ ret.op = "fetch" /\ ret.status = "DecodingFailure"
    /\ Len(vt_fetched) = 2 /\ vt_fetched[1].data /\ vt_fetched[1].frame = 2
    /\ vt_queue = <<>>

(***************************************************************************)
(* Claims about the dummy STUN packets (checked under SpecSec)             *)
(***************************************************************************)

\* The steps that run media_stream_configure_stun_packet_sending.
StunReevaluated ==
    \/ ret'.op = "set_ice_check_list"
    \/ ret'.op = "enable_dtls" /\ ret'.created

\* C17 as stated, for a stream that has its rtpsend filter and is allowed to
\* send STUN packets: after media_stream_enable_dtls created the context or
\* media_stream_set_ice_check_list ran, the forced dummy STUN packets are on
\* exactly when a DTLS context exists and the stream has no ICE check list or
\* is a non-primary stream of a bundle.
C17_ForcedWhenExposed ==
    [][(StunReevaluated /\ rtpsend # NULL /\ stun_allowed)
         => (stun_forced' <=> (/\ dtls_context' # NULL
                               /\ (ice_check_list' = NULL \/ bundle_role = "secondary")))]_vars

\* C17: media_stream_enable_dtls, when it creates the context, and
\* media_stream_set_ice_check_list tell the rtpsend filter of a stream that
\* has a DTLS context to send forced dummy STUN packets exactly when STUN is
\* allowed, no ICE check list is attached and the stream is not a
\* non-primary stream of a bundle; without rtpsend filter or DTLS context
\* they leave the setting as it was, and so does every other operation.  The
\* forced packets are never on without a DTLS context.
C17_ForcedKeepalive ==
    /\ [](stun_forced => (dtls_context # NULL /\ rtpsend # NULL))
    /\ [][/\ (StunReevaluated /\ rtpsend # NULL /\ dtls_context' # NULL)
               => (stun_forced' <=> (/\ stun_allowed
                                     /\ ice_check_list' = NULL
                                     /\ bundle_role # "secondary"))
          /\ (StunReevaluated /\ (rtpsend = NULL \/ dtls_context' = NULL))
               => stun_forced' = stun_forced
          /\ ~StunReevaluated => stun_forced' = stun_forced]_vars

C17_Witness ==
    /\ ret.op = "enable_dtls" /\ ret.created /\ dtls_context # NULL
    /\ rtpsend # NULL /\ bundle_role = "primary" /\ ice_check_list = NULL
    /\ stun_forced

(***************************************************************************)
(* Claims about the processing of one RTCP packet (checked under Spec)     *)
(***************************************************************************)

\* The three things done with a sub-packet, in the order of the loop body.
StepRank(step) ==
    IF step = "rc_process_rtcp" THEN 1
    ELSE IF step = "qi_update_from_feedback" THEN 2
    ELSE IF step = "process_rtcp_hook" THEN 3
    ELSE 0

\* C18: for each RTCP_PACKET_RECEIVED event of a tick, last_packet_time is
\* set once, to the tick's time and before anything else is done with the
\* event, however many sub-packets there are; then for each sub-packet, in
\* the order of the compound packet, the bitrate controller is fed (exactly
\* when it is enabled and exists), then the quality indicator (exactly when
\* it exists), then the stream-type hook is called, each once, and the three
\* steps of a sub-packet come before any step of the next.
C18_RtcpOrder ==
    ret.op = "iterate" =>
      \A i \in 1..Len(ret.drained) :
        ret.drained[i].type = "ORTP_EVENT_RTCP_PACKET_RECEIVED" =>
          LET m    == ret.drained[i].packet
              mine == {k \in 1..Len(trace) : trace[k].ev = i}
              subs == {k \in mine : StepRank(trace[k].step) > 0}
          IN  /\ last_packet_time = ret.curtime
              /\ Times(Did(i, "last_packet_time", 0)) = 1
              /\ \A k \in mine : trace[k].step = "last_packet_time" => \A l \in mine : k <= l
              /\ \A k, l \in subs :
                   k < l => \/ trace[k].sub < trace[l].sub
                            \/ /\ trace[k].sub = trace[l].sub
                               /\ StepRank(trace[k].step) < StepRank(trace[l].step)
              /\ \A j \in 1..Len(m) :
                   (\A k \in 1..j : m[k].ok) =>
                     /\ Times(Did(i, "process_rtcp_hook", j)) = 1
                     /\ Times(Did(i, "rc_process_rtcp", j)) = (IF rc_enable /\ rc # NULL THEN 1 ELSE 0)
                     /\ Times(Did(i, "qi_update_from_feedback", j)) = (IF qi # NULL THEN 1 ELSE 0)

\* C18 happens: a tick took an SR followed by an RR, with the bitrate
\* controller enabled and a quality indicator: six steps, three for each
\* sub-packet, after the timestamp.
C18_Witness ==
    /\ ret.op = "iterate" /\ Len(ret.drained) = 1
    /\ ret.drained[1].type = "ORTP_EVENT_RTCP_PACKET_RECEIVED"
    /\ ret.drained[1].packet = <<Sub("SR", TRUE), Sub("RR", TRUE)>>
    /\ rc_enable /\ rc # NULL /\ qi # NULL
    /\ last_packet_time = ret.curtime
    /\ \E k \in 1..Len(trace) :
         /\ k + 6 <= Len(trace)
         /\ SubSeq(trace, k, k + 6)
              = <<Did(1, "last_packet_time", 0),
                  Did(1, "rc_process_rtcp", 1), Did(1, "qi_update_from_feedback", 1),
                  Did(1, "process_rtcp_hook", 1),
                  Did(1, "rc_process_rtcp", 2), Did(1, "qi_update_from_feedback", 2),
                  Did(1, "process_rtcp_hook", 2)>>

(***************************************************************************)
(* Claims about the priority of the ticker (checked under SpecPrio)        *)
(***************************************************************************)

\* The string v is the word but for the case of its letters.
SameWord(v, word, lowered) ==
    Len(v) = Len(word) /\ \A i \in 1..Len(word) : v[i] \in {word[i], lowered[i]}

\* The priority a value of the knob names, "" when it names none.
KnobPrio(knob) ==
    IF ~knob.set THEN ""
    ELSE IF SameWord(knob.value, <<"N", "O", "R", "M", "A", "L">>, <<"n", "o", "r", "m", "a", "l">>)
    THEN "MS_TICKER_PRIO_NORMAL"
    ELSE IF SameWord(knob.value, <<"H", "I", "G", "H">>, <<"h", "i", "g", "h">>)
    THEN "MS_TICKER_PRIO_HIGH"
    ELSE IF SameWord(knob.value, <<"R", "E", "A", "L", "T", "I", "M", "E">>,
                     <<"r", "e", "a", "l", "t", "i", "m", "e">>)
    THEN "MS_TICKER_PRIO_REALTIME"
    ELSE ""

\* C20: where the build reads the knobs (every target but Windows
\* Universal), the knob of the stream kind asked for decides the priority
\* iff its value is NORMAL, HIGH or REALTIME but for the case of the letters;
\* with any other value, or none, the priority is the default of the kind
\* (audio: high; video: normal, high on iPhone targets).  The knob of the
\* other kind has no part in the result; on Windows Universal no knob is read
\* and the default is returned.
C20_TickerPrio ==
    ret.op = "__ms_get_default_prio" =>
      LET knob     == IF ret.is_video THEN MS_VIDEO_PRIO ELSE MS_AUDIO_PRIO
          fallback == IF ~ret.is_video THEN "MS_TICKER_PRIO_HIGH"
                      ELSE IF target = "TARGET_OS_IPHONE" THEN "MS_TICKER_PRIO_HIGH"
                      ELSE "MS_TICKER_PRIO_NORMAL"
      IN  ret.prio = IF target # "MS2_WINDOWS_UNIVERSAL" /\ KnobPrio(knob) # ""
                     THEN KnobPrio(knob)
                     ELSE fallback

\* C20 happens: the priority of a video stream was asked for with the video
\* knob set to "realtime" in lower case and the audio knob set to "LOW".
C20_Witness ==
    /\ ret.op = "__ms_get_default_prio" /\ ret.is_video
    /\ target = "generic"
    /\ MS_VIDEO_PRIO = Env(<<"r", "e", "a", "l", "t", "i", "m", "e">>)
    /\ MS_AUDIO_PRIO = Env(<<"L", "O", "W">>)
    /\ ret.prio = "MS_TICKER_PRIO_REALTIME"

(***************************************************************************)
(* Claims about the teardown of an owning stream (checked under            *)
(* SpecTeardown)                                                           *)
(***************************************************************************)

\* The transport and the security contexts of the sessions.
OwnedFields == {"srtp_context", "rtp_session", "zrtp_context", "dtls_context"}

\* C21: media_stream_free on a stream that still owns its sessions releases
\* the transport, each security context and the FEC session it holds, each
\* exactly once, and leaves none of them held.
C21_OwnedReleased ==
    [][(~stream_freed /\ stream_freed' /\ owns_sessions)
         => /\ \A f \in OwnedFields :
                 released'[f] = released[f] + (IF sessions[f] # NULL THEN 1 ELSE 0)
            /\ srtp_context' = NULL /\ rtp_session' = NULL
            /\ zrtp_context' = NULL /\ dtls_context' = NULL
            /\ fec_session' = NULL]_vars

(***************************************************************************)
(* Claims about the construction of the transport (checked under           *)
(* SpecTransport)                                                          *)
(***************************************************************************)

\* C22: media_stream_join_multicast_group returns the status of the transport
\* unchanged, and ms_create_duplex_rtp_session does not hand the caller a
\* session when the local address could not be bound.
C22_TransportErrorPropagated ==
    /\ ret.op = "media_stream_join_multicast_group" => ret.result = ret.transport
    /\ (ret.op = "ms_create_duplex_rtp_session" /\ rtpr.local_addr = NULL) => ret.result = NULL

(***************************************************************************)
(* Claims about the pace of the local sampling (checked under SpecPace)    *)
(***************************************************************************)

\* C23: a tick samples the local quality indicator only when the stream is
\* started, the second it reads is later than last_iterate_time and the
\* direction is not SendOnly (and then it does, if the stream has a quality
\* indicator), so a second tick in the same second samples nothing; every
\* tick, sampling or not, leaves the second it read in last_iterate_time.
C23_LocalSampling ==
    [][ret'.op = "iterate"
         => /\ (Did(0, "qi_update_local", 0) \in {trace'[k] : k \in 1..Len(trace')})
                 <=> (/\ state = "MSStreamStarted"
                      /\ now > last_iterate_time
                      /\ direction # "MediaStreamSendOnly"
                      /\ qi # NULL)
            /\ Times(Did(0, "qi_update_local", 0))' <= 1
            /\ last_iterate_time' = now]_vars

\* C23 happens: a tick of a started receive-only stream sampled the local
\* quality indicator in second 2.
C23_Witness ==
    /\ ret.op = "iterate" /\ ret.curtime = 2
    /\ state = "MSStreamStarted" /\ direction = "MediaStreamRecvOnly"
    /\ Did(0, "qi_update_local", 0) \in Done
    /\ last_iterate_time = 2

(***************************************************************************)
(* More claims about FlexFEC (checked under SpecFec)                       *)
(***************************************************************************)

\* C24: media_stream_handle_fec with a profile that holds no flexfec payload
\* type changes nothing: no FEC session, no FEC stream, no binding, the
\* jitter compensation as it was.  With one it sets the jitter compensation
\* of the primary session to 200 ms and leaves the stream with a FEC session
\* bound into the bundle of the primary session.  A FEC session comes into
\* being by no other step, and only on a stream that has its primary session.
C24_FecOnlyWithFlexfec ==
    [][/\ (ret'.op = "handle_fec" /\ ~ret'.profile.flexfec) => UNCHANGED fecVars
       /\ (ret'.op = "handle_fec" /\ ret'.profile.flexfec)
            => /\ jitter_comp' = 200
               /\ fec_session' # NULL
               /\ bundle_fec_bindings' = bundle_fec_bindings + 1
               /\ ms_fec_stream' # 0
       /\ (fec_session = NULL /\ fec_session' # NULL)
            => (ret'.op = "handle_fec" /\ ret'.profile.flexfec /\ rtp_session # NULL)]_vars

\* C24 happens: the first setup on a stream without FEC session, from a
\* profile with a flexfec payload type.
C24_Witness ==
    /\ ret.op = "handle_fec" /\ ret.profile.flexfec
    /\ fec_session # NULL /\ fec_streams_created = 1 /\ bundle_fec_bindings = 1
    /\ jitter_comp = 200 /\ rtp_session # NULL

(***************************************************************************)
(* More claims about TMMBR (checked under SpecTmmbr)                       *)
(***************************************************************************)

\* C25: when the encoder refuses the bitrate of a new TMMBR limit, the limit
\* is applied all the same: target_bitrate and the upload bandwidth of the
\* session become the new limit and the limit is returned; the encoder keeps
\* its bitrate.  The same TMMBR received again right after is skipped as
\* already applied: the encoder is not called again and nothing changes.
C25_EncoderFailureTolerated ==
    [][/\ (ret'.op = "process_tmmbr" /\ ret'.enc_called /\ ~ret'.enc_ok)
            => /\ ret'.result # -1
               /\ ret'.result = C2_Limit(tmmbr_corrected(ret'.v), max_target_bitrate)
               /\ target_bitrate' = ret'.result
               /\ upload_bw' = ret'.result
               /\ enc_bitrate' = enc_bitrate
       /\ (/\ ret.op = "process_tmmbr" /\ ret.enc_called /\ ~ret.enc_ok
           /\ ret'.op = "process_tmmbr" /\ ret'.v = ret.v)
            => /\ ret'.result = -1 /\ ~ret'.enc_called
               /\ UNCHANGED <<target_bitrate, upload_bw, enc_bitrate>>]_vars

\* C25 happens: an audio stream was sent the TMMBR 300000 twice, the encoder
\* refused the first, and the second was skipped: the session has the limit,
\* the encoder has not.
C25_Witness ==
    /\ ret.op = "process_tmmbr" /\ ret.v = U64(0, 300000) /\ ret.result = -1
    /\ type = "MSAudio" /\ encoder # NULL
    /\ upload_bw = 300000 /\ target_bitrate = 300000 /\ enc_bitrate = 0

\* a <= b on uint64_t values.
U64Leq(a, b) == a.hi < b.hi \/ (a.hi = b.hi /\ a.lo <= b.lo)

\* Whether the stream's session has the audio bandwidth estimator enabled and
\* instantiated.
EstimatorActive == bw_estimator.enabled /\ bw_estimator.instantiated

\* C30: the TMMBR value is lowered by value / duplicate_rate (integer
\* division on the 64-bit value, before the clamp to INT_MAX) exactly when
\* the stream is audio and its session has the bandwidth estimator enabled
\* and instantiated; a video or text stream, and an audio stream without an
\* active estimator, use the raw value; the corrected value is never above
\* the raw one.
C30_DuplicateCorrection ==
    [][ret'.op = "process_tmmbr" =>
         LET v == ret'.v
             corrected == u64_sub(v, u64_div(v, duplicate_rate))
         IN  /\ (type = "MSAudio" /\ EstimatorActive)
                  => /\ ret'.br_int = tmmbr_to_int(corrected)
                     /\ v.hi = 0 => ret'.br_int = v.lo - (v.lo \div duplicate_rate)
                     /\ (v = U64(1, 0) /\ duplicate_rate = 2) => ret'.br_int = 1073741824
                     /\ (v = U64(3, 7) /\ duplicate_rate = 10) => ret'.br_int = INT_MAX
             /\ (type # "MSAudio" \/ ~EstimatorActive)
                  => ret'.br_int = tmmbr_to_int(v)
             /\ U64Leq(tmmbr_corrected(v), v)
             /\ ret'.br_int <= tmmbr_to_int(v)]_vars

\* C30 happens: an audio stream with an active estimator and a duplicate
\* rate of 2 got a TMMBR of 2^31 bit/s, above INT_MAX, and worked with half
\* of it.
C30_Witness ==
    /\ ret.op = "process_tmmbr" /\ ret.v = U64(1, 0) /\ ret.br_int = 1073741824
    /\ type = "MSAudio" /\ EstimatorActive /\ duplicate_rate = 2

\* C26: on a video stream whose preset is not "custom", every TMMBR that is
\* applied feeds the quality controller the new limit, and the controller is
\* made by the first of them only: once the stream has one, none is made
\* again.  On a video stream with the "custom" preset, and for a TMMBR that
\* is not applied, no controller is made or fed.
C26_QualityControllerOnce ==
    /\ [](video_preset = "custom" => (video_quality_controller = NULL /\ vqc_ceiling = 0))
    /\ [][/\ video_quality_controller # NULL
               => (video_quality_controller' = video_quality_controller)
          /\ ret'.op = "process_tmmbr"
               => /\ (type = "MSVideo" /\ video_preset # "custom" /\ ret'.result # -1)
                       => /\ ret'.vqc_fed /\ vqc_ceiling' = ret'.result
                          /\ video_quality_controller' # NULL
                          /\ ret'.vqc_created <=> (video_quality_controller = NULL)
                  /\ (type # "MSVideo" \/ video_preset = "custom" \/ ret'.result = -1)
                       => /\ ~ret'.vqc_fed /\ ~ret'.vqc_created
                          /\ UNCHANGED <<video_quality_controller, vqc_ceiling>>]_vars

\* C26 happens: a second TMMBR was applied to a video stream with the
\* high-fps preset: the controller made by the first was fed, none was made.
C26_Witness ==
    /\ ret.op = "process_tmmbr" /\ ret.result = 500000
    /\ type = "MSVideo" /\ video_preset = "high-fps"
    /\ ret.vqc_fed /\ ~ret.vqc_created
    /\ video_quality_controller # NULL /\ vqc_ceiling = 500000

(***************************************************************************)
(* More claims about liveness (checked under SpecLive)                     *)
(***************************************************************************)

C28_FecModesFromPrimary ==
    [][(ret'.op = "handle_fec" /\ ret'.setup /\ fec_session = NULL)
         => /\ fec_session' # NULL
            /\ fec_cfg'.scheduling = rtp_session_modes.scheduling
            /\ fec_cfg'.blocking = rtp_session_modes.blocking
            /\ fec_cfg'.avpf_tmmbr = rtp_session_modes.avpf_tmmbr]_vars

\* C28, amended: when media_stream_handle_fec sets up FEC, creating the
\* secondary session or reusing the one the sessions hold, that session gets
\* scheduling mode 0, blocking mode 0 and the AVPF TMMBR feature enabled,
\* whatever the modes of the primary session; these are the primary's modes
\* exactly when the primary still has the modes
\* ms_create_duplex_rtp_session gave it.
C28_FecModes ==
    [][(ret'.op = "handle_fec" /\ ret'.setup)
         => /\ fec_session' # NULL
            /\ fec_cfg'.scheduling = 0 /\ fec_cfg'.blocking = 0 /\ fec_cfg'.avpf_tmmbr
            /\ (/\ fec_cfg'.scheduling = rtp_session_modes.scheduling
                /\ fec_cfg'.blocking = rtp_session_modes.blocking
                /\ fec_cfg'.avpf_tmmbr = rtp_session_modes.avpf_tmmbr)
                 <=> rtp_session_modes = duplex_modes]_vars

\* C28 happens: FEC was set up on a stream whose primary session is
\* scheduled and blocking and has the TMMBR feature off; the session made
\* for FEC has neither mode and the feature on.
C28_Witness ==
    /\ ret.op = "handle_fec" /\ ret.setup
    /\ rtp_session_modes = [scheduling |-> 1, blocking |-> 1, avpf_tmmbr |-> FALSE]
    /\ fec_session # NULL /\ fec_streams_created = 1
    /\ fec_cfg.scheduling = 0 /\ fec_cfg.blocking = 0 /\ fec_cfg.avpf_tmmbr

\* Whether a string is a decimal number: an optional sign and one digit or
\* more, and nothing else.
Numeric(str) ==
    LET digits == IF str # <<>> /\ Head(str) \in {"-", "+"} THEN Tail(str) ELSE str
    IN  digits # <<>> /\ \A i \in 1..Len(digits) : digit(digits[i]) >= 0

\* The value a FlexFEC parameter must get from an fmtp string according to
\* C29 when the string gives it a value that is no number.
UnparsableGivesDefault(fmtp, name, size, value, default) ==
    LET v == fmtp_get_value(fmtp, name, size)
    IN  (v.found /\ ~Numeric(v.buffer)) => value = default

\* C29: a FlexFEC fmtp attribute whose value cannot be parsed as a number
\* gives the parameter its default (repair-window 100000, L 10, D 0), as a
\* missing attribute does, never 0 or a value made from the text.
C29_UnparsableGivesDefault ==
    (ret.op = "handle_fec" /\ ret.setup)
      => /\ UnparsableGivesDefault(ret.profile.recv_fmtp, "repair-window", max_size,
                                   fec_params.repair_window, 100000)
         /\ UnparsableGivesDefault(ret.profile.recv_fmtp, "L", 10, fec_params.L, 10)
         /\ UnparsableGivesDefault(ret.profile.recv_fmtp, "D", 10, fec_params.D, 0)

\* C31: on a video stream with the "custom" preset whose encoder has a
\* configuration list, an applied TMMBR limit r pushes to the encoder a
\* configuration whose required bitrate is the smaller of r and the bitrate
\* limit of the configuration selected for r, never above r; an encoder
\* that accepts it then has that required bitrate.  Without a configuration
\* list nothing is pushed and the required bitrate stays.
C31_CustomPreset ==
    [][(/\ ret'.op = "process_tmmbr" /\ ret'.result # -1
        /\ type = "MSVideo" /\ video_preset = "custom")
         => LET r   == ret'.result
                lim == ms_video_find_best_configuration_for_size_and_bitrate(r)
            IN  /\ vconf_list # NULL
                     => /\ ret'.conf_pushed
                        /\ ret'.conf_bitrate <= r /\ ret'.conf_bitrate <= lim
                        /\ ret'.conf_bitrate \in {r, lim}
                        /\ ret'.enc_ok => required_bitrate' = ret'.conf_bitrate
                /\ vconf_list = NULL
                     => /\ ~ret'.conf_pushed
                        /\ required_bitrate' = required_bitrate]_vars

\* C31 happens: a TMMBR of 300000 bit/s on a "custom" video stream selected
\* the configuration limited to 100000 bit/s, which the encoder now requires.
C31_Witness ==
    /\ ret.op = "process_tmmbr" /\ ret.result = 300000
    /\ type = "MSVideo" /\ video_preset = "custom" /\ vconf_list # NULL
    /\ ret.conf_pushed /\ ret.conf_bitrate = 100000 /\ required_bitrate = 100000

\* C34: a TMMBR received on a stream that has no encoder is rejected and
\* changes nothing: target_bitrate and the session's target upload bandwidth
\* keep their values, no encoder call is made, no configuration is pushed
\* and the quality controller is neither made nor fed.
C34_NoEncoder ==
    [][(ret'.op = "process_tmmbr" /\ encoder = NULL)
         => /\ ret'.result = -1
            /\ ~ret'.enc_called /\ ~ret'.conf_pushed /\ ~ret'.vqc_fed /\ ~ret'.vqc_created
            /\ UNCHANGED <<target_bitrate, upload_bw, enc_bitrate, required_bitrate,
                           video_quality_controller, vqc_ceiling>>]_vars

\* C34 happens: a stream without encoder whose target had been set to 500000
\* bit/s received a TMMBR of 300000 bit/s and kept its target.
C34_Witness ==
    /\ ret.op = "process_tmmbr" /\ ret.v = U64(0, 300000) /\ ret.result = -1
    /\ encoder = NULL /\ target_bitrate = 500000 /\ upload_bw = 0

(***************************************************************************)
(* The TMMBR handler (checked under SpecHandler)                           *)
(***************************************************************************)

\* The positions of an entry in the log of media_stream_free.
LogPositions(what, of) ==
    {i \in 1..Len(free_log) : free_log[i] = <<what, of>>}

\* C32: the handler connected for RTPFB sub-packets changes the bitrate
\* state only for the TMMBR feedback type: any other type leaves
\* target_bitrate, the session's upload bandwidth and the encoder as they
\* were.  The handler is connected from media_stream_init on, and
\* media_stream_free disconnects it before it destroys the dispatcher: no
\* sub-packet reaches the handler once the dispatcher is destroyed.
C32_TmmbrHandler ==
    /\ [](free_log = <<>> => tmmbr_handler_connected)
    /\ [](\A d \in LogPositions("destroy", "evd") :
              \E h \in LogPositions("remove_tmmbr_handler", "") : h < d)
    /\ [][/\ (ret'.op = "rtpfb_ignored" \/ ret'.op = "process_tmmbr")
               => /\ tmmbr_handler_connected
                  /\ LogPositions("destroy", "evd") = {}
          /\ (/\ ret'.op = "rtpfb_ignored" \/ ret'.op = "process_tmmbr"
              /\ rtpfb_type' # "RTCP_RTPFB_TMMBR")
               => /\ ret'.op = "rtpfb_ignored"
                  /\ UNCHANGED <<target_bitrate, upload_bw, encoder, enc_bitrate,
                                 required_bitrate, video_quality_controller, vqc_ceiling>>
          /\ (ret'.op = "process_tmmbr" /\ ret'.result # -1)
               => target_bitrate' = ret'.result]_vars

\* C32 happens: a stream took a limit of 300000 bit/s from a TMMBR, then an
\* RTPFB sub-packet of another type was handed to the handler and left it.
C32_Witness ==
    /\ ret.op = "rtpfb_ignored" /\ rtpfb_type = "RTCP_RTPFB_NACK"
    /\ target_bitrate = 300000 /\ upload_bw = 300000
    /\ tmmbr_handler_connected /\ ~stream_freed

(***************************************************************************)
(* More claims about the VideoToolbox decoder (checked under SpecVt)       *)
(***************************************************************************)

\* C33 as stated: while the decoder is frozen, feed submits no frame and
\* returns false unless the frame holds a key-frame part; a frame that holds
\* one clears the freeze, is submitted, and feed returns true.
C33_FrozenFeedAsStated ==
    [][(ret'.op = "feed" /\ vt_freeze)
         => IF ret'.frame.key
            THEN ~vt_freeze' /\ ret'.submitted /\ ret'.result
            ELSE vt_freeze' /\ ~ret'.submitted /\ ~ret'.result]_vars

\* C33, amended: while the decoder is frozen, feed submits no frame that
\* holds no key-frame part, and returns false for it unless it is empty once
\* its parameter sets are taken out (then feed returns true); a frame that
\* holds a key-frame part and reaches the test of the freeze (the parameter
\* sets are complete and there is a session) clears the freeze and is handed
\* to the session, and feed returns true exactly when the session takes it;
\* the freeze stays when feed returns earlier.
C33_FrozenFeed ==
    [][(ret'.op = "feed" /\ vt_freeze)
         => /\ ~ret'.frame.key
                 => /\ vt_freeze' /\ ~ret'.submitted
                    /\ ret'.result <=> ret'.frame.empty
            /\ (ret'.frame.key /\ vt_pc = "feed_decode")
                 => /\ ~vt_freeze'
                    /\ ret'.result <=> ret'.submitted
            /\ (ret'.frame.key /\ vt_pc # "feed_decode")
                 => vt_freeze' /\ ~ret'.submitted /\ ~ret'.result
            /\ ret'.submitted => (ret'.frame.key /\ ~vt_freeze' /\ ret'.result)]_vars

\* C33 happens: a frozen decoder was fed a frame holding a key-frame part,
\* handed it to its session and returned true, and is frozen no more.
C33_Witness ==
    /\ ret.op = "feed" /\ ret.frozen /\ ret.frame.key
    /\ ret.submitted /\ ret.result /\ ~vt_freeze
    /\ vt_session # NULL

(***************************************************************************)
(* More claims about the tick (checked under Spec)                         *)
(***************************************************************************)

\* The steps of the trace that the tick made for event i with a sub-packet.
SubPacketSteps(i) ==
    {k \in 1..Len(trace) :
        /\ trace[k].ev = i
        /\ trace[k].step \in {"process_rtcp_hook", "rc_process_rtcp", "qi_update_from_feedback"}}

\* C35: for each RTCP packet a tick processes, the stream-type hook, the
\* bitrate controller and the quality indicator are called once for each
\* sub-packet the parser yields (the hook always, the other two when they
\* are there) and never with a null sub-packet, also when the parser yields
\* no sub-packet at all.
C35_NoNullSubPacket ==
    ret.op = "iterate" =>
      \A i \in 1..Len(ret.drained) :
        ret.drained[i].type = "ORTP_EVENT_RTCP_PACKET_RECEIVED" =>
          LET m       == ret.drained[i].packet
              yielded == {j \in 1..Len(m) : \A k \in 1..j : m[k].ok}
          IN  /\ \A j \in yielded : Times(Did(i, "process_rtcp_hook", j)) = 1
              /\ \A k \in SubPacketSteps(i) : trace[k].sub \in yielded
              /\ Cardinality({k \in SubPacketSteps(i) : trace[k].step = "process_rtcp_hook"})
                   = Cardinality(yielded)

(***************************************************************************)
(* More claims about ownership and teardown (checked under SpecOwn)        *)
(***************************************************************************)

\* The fields of a sessions structure that hold a handle, in the order
\* ms_media_stream_sessions_uninit goes through them.
HeldInOrder(s) ==
    LET held == {k \in 1..Len(SessionFields) : s[SessionFields[k]] # NULL}
        F[k \in 0..Len(SessionFields)] ==
            IF k = 0 THEN <<>>
            ELSE IF k \in held THEN Append(F[k - 1], <<"destroy", SessionFields[k]>>)
            ELSE F[k - 1]
    IN  F[Len(SessionFields)]

\* C36: ms_media_stream_sessions_uninit releases each of the SRTP context,
\* RTP session, ZRTP context, DTLS context and ticker exactly when its
\* handle is not null, once, and leaves every handle null; called again on
\* the same structure it releases nothing.
C36_UninitIdempotent ==
    [][ret'.op = "caller_uninit"
         => /\ ret'.log = HeldInOrder(caller)
            /\ caller' = NoSessions
            /\ \A f \in SessionFieldSet :
                 released'[f] = released[f] + (IF caller[f] # NULL THEN 1 ELSE 0)
            /\ ret.op = "caller_uninit"
                 => (ret'.log = <<>> /\ released' = released)]_vars

\* C36 happens: the caller released the sessions it had reclaimed, RTP
\* session included, and called ms_media_stream_sessions_uninit again, which
\* released nothing.
C36_Witness ==
    /\ ret.op = "caller_uninit" /\ ret.log = <<>>
    /\ ~owns_sessions /\ stream_freed
    /\ caller = NoSessions
    /\ released["rtp_session"] = 1 /\ released["srtp_context"] = 1

\* The positions in the log of media_stream_free of the steps that detach
\* the stream from what outlives or precedes it, and of the destructions of
\* the event queue, the dispatcher and the sessions' sub-resources.
DetachPositions ==
    {k \in 1..Len(free_log) :
        free_log[k][1] \in {"remove_tmmbr_handler", "clear_backpointer", "unregister_event_queue"}}

DestroyPositions ==
    {k \in 1..Len(free_log) :
        free_log[k][1] = "destroy" /\ free_log[k][2] \in {"evq", "evd"} \cup SessionFieldSet}

\* C37: media_stream_free disconnects the TMMBR handler, clears the
\* back-pointers of the ZRTP and DTLS contexts the sessions hold and
\* unregisters the event queue from the RTP session, all before it destroys
\* the event queue, the dispatcher or, when it owns them, the RTP session and
\* the security contexts: a context or an RTP session that is destroyed or
\* that survives the stream was detached from it first.
C37_TeardownOrder ==
    ret.op = "free" =>
      /\ \A b \in DetachPositions, d \in DestroyPositions : b < d
      /\ LogPositions("remove_tmmbr_handler", "") = {1}
      /\ Cardinality(LogPositions("destroy", "evq")) = 1
      /\ Cardinality(LogPositions("destroy", "evd")) = 1
      /\ \A d \in LogPositions("destroy", "evq"), e \in LogPositions("destroy", "evd") : d < e
      /\ \A f \in {"zrtp_context", "dtls_context"} :
           (LogPositions("destroy", f) # {} \/ sessions[f] # NULL)
             <=> LogPositions("clear_backpointer", f) # {}
      /\ (LogPositions("destroy", "rtp_session") # {} \/ rtp_session # NULL)
           <=> LogPositions("unregister_event_queue", "rtp_session") # {}
      /\ \A f \in SessionFieldSet : LogPositions("destroy", f) # {} => owns_sessions

\* C37 happens: a stream that owned an RTP session with a ZRTP and a DTLS
\* context was freed: handler, back-pointers and queue registration went
\* first, then the queue, the dispatcher and the owned objects.
C37_Witness ==
    /\ ret.op = "free" /\ owns_sessions /\ Len(free_log) >= 9
    /\ SubSeq(free_log, 1, 6)
         = << <<"remove_tmmbr_handler", "">>, <<"clear_backpointer", "zrtp_context">>,
              <<"clear_backpointer", "dtls_context">>,
              <<"unregister_event_queue", "rtp_session">>,
              <<"destroy", "evq">>, <<"destroy", "evd">> >>
    /\ released["rtp_session"] = 1 /\ released["zrtp_context"] = 1
    /\ released["dtls_context"] = 1

(***************************************************************************)
(* The RTCP report interval (checked under SpecInterval)                   *)
(***************************************************************************)

\* C38: the RTCP report interval starts at 2500 ms; only a tick of
\* media_stream_iterate changes it, to 5000 ms, on a started stream still
\* at its beginning and more than 15 seconds after start_time, and such a
\* tick always does; once switched, is_beginning stays FALSE and the
\* interval stays at 5000 ms.
C38_ReportInterval ==
    /\ rtcp_report_interval = 2500
    /\ [][/\ rtcp_report_interval' # rtcp_report_interval
               => /\ ret'.op = "iterate"
                  /\ state = "MSStreamStarted" /\ is_beginning
                  /\ now - start_time > 15
                  /\ rtcp_report_interval = 2500 /\ rtcp_report_interval' = 5000
                  /\ ~is_beginning'
          /\ (/\ ret'.op = "iterate" /\ state = "MSStreamStarted" /\ is_beginning
              /\ now - start_time > 15)
               => rtcp_report_interval' = 5000 /\ ~is_beginning'
          /\ (ret'.op = "iterate" /\ now - start_time <= 15)
               => UNCHANGED <<rtcp_report_interval, is_beginning>>
          /\ rtcp_report_interval = 5000
               => rtcp_report_interval' = 5000 /\ ~is_beginning /\ ~is_beginning']_vars

\* C38 happens: the tick of second start_time + 16 switched the interval to
\* 5000 ms.
C38_Witness ==
    /\ ret.op = "iterate" /\ state = "MSStreamStarted"
    /\ now = start_time + 16 /\ last_iterate_time = now
    /\ rtcp_report_interval = 5000 /\ ~is_beginning

(***************************************************************************)
(* More claims about the crypto suites (checked under SpecCrypto)          *)
(***************************************************************************)

\* Whether the params string of the descriptor made of the suite holds the
\* token.
OutHasToken(token) ==
    /\ ~cs_out.params.null
    /\ \E i \in 1..Len(cs_out.params.toks) : cs_out.params.toks[i] = token

\* C39: for the suite of any descriptor, ms_crypto_suite_is_unencrypted is
\* true exactly when the params string ms_crypto_suite_to_name_params makes
\* of it holds UNENCRYPTED_SRTP or UNENCRYPTED_SRTCP,
\* ms_crypto_suite_is_unauthenticated exactly when it holds
\* UNAUTHENTICATED_SRTP, no suite is both, and
\* ms_crypto_suite_to_name_params returns -1, with a null name, exactly for
\* MS_CRYPTO_SUITE_INVALID.
C39_ClassificationAgrees ==
    ret.op = "crypto_round_trip" =>
      /\ ret.unencrypted
           <=> (OutHasToken("UNENCRYPTED_SRTP") \/ OutHasToken("UNENCRYPTED_SRTCP"))
      /\ ret.unauthenticated <=> OutHasToken("UNAUTHENTICATED_SRTP")
      /\ ~(ret.unencrypted /\ ret.unauthenticated)
      /\ cs_out.status \in {0, -1}
      /\ (cs_out.status = -1) <=> (cs_suite = "MS_CRYPTO_SUITE_INVALID")
      /\ (cs_out.status = -1) <=> (cs_out.name = NULL)

\* C39 happens: the suite with SRTCP left unencrypted was classified as
\* unencrypted and not as unauthenticated, its descriptor holding the
\* UNENCRYPTED_SRTCP token.
C39_Witness ==
    /\ ret.op = "crypto_round_trip"
    /\ cs_suite = "MS_AES_128_SHA1_80_SRTCP_NO_CIPHER"
    /\ ret.unencrypted /\ ~ret.unauthenticated
    /\ cs_out.status = 0 /\ cs_out.params = ParamString(<<"UNENCRYPTED_SRTCP">>)

====
